---- MODULE Spec2Model ----
(***************************************************************************)
(* A model of the lab2life server: the record store (server/storage.ts     *)
(* over the tables of shared/schema.ts) and the HTTP handlers of            *)
(* server/routes.ts that do more than one storage call.  Every `await` of   *)
(* a handler is a point where another request may run, so a handler is a    *)
(* process whose steps are the code between two awaits.  Of the client, the *)
(* model holds the onboarding condition of App.tsx, the two notification    *)
(* hooks with the browser's clock and timers, and the pill planner page     *)
(* with its cached queries and its dose mutation.                           *)
(***************************************************************************)
EXTENDS Integers, Sequences, FiniteSets, Bags, TLC

VARIABLES
    medications,     \* table medications: id -> row
    supplements,     \* table supplements: id -> row
    nextMedId,       \* serial of medications.id
    nextSuppId,      \* serial of supplements.id
    pillDoses,       \* table pill_doses: a set of rows
    nextDoseId,      \* serial of pill_doses.id
    gen,             \* POST /api/pill-doses/generate requests in flight
    prevGenerate,    \* the last completed generate call, while nothing changed since
    edits,           \* medication, supplement and dose edit requests so far
    labResults,      \* table lab_results: id -> row
    nextLabId,       \* serial of lab_results.id
    healthMarkers,   \* table health_markers: a set of rows
    recommendations, \* table recommendations: a set of rows
    task,            \* the detached processLabResult task of each upload
    interactions,    \* table interactions: a set of rows
    nextInteractionId, \* serial of interactions.id
    chk,             \* POST /api/interactions/check requests in flight
    users,           \* table users: a set of rows
    nextUserId,      \* how many ids gen_random_uuid() has given to users
    req,             \* /api/me requests in flight
    clock,           \* the server's wall clock
    reply,           \* the response to the latest request served in one step
    now,             \* the browser's wall clock: local day and half minute of the day
    device,          \* the browser: notification permission, time zone, page loaded
    notifications,   \* the notifications created so far (new Notification), a bag
    remHook,         \* useReminderNotifications: its props, ref and interval
    pillHook,        \* usePillNotifications: its props, refs, interval and timers
    planner          \* the pill planner page: its query data and its dose mutation

pillVars == <<medications, supplements, nextMedId, nextSuppId, edits>>

doseVars == <<pillDoses, nextDoseId, gen, prevGenerate>>

interactionVars == <<interactions, nextInteractionId, chk>>

labVars == <<labResults, nextLabId, healthMarkers, recommendations, task>>

userVars == <<users, nextUserId, req, clock>>

clientVars == <<now, device, notifications, remHook, pillHook>>

vars == <<pillVars, doseVars, labVars, interactionVars, userVars, reply, clientVars, planner>>

\* What the handlers of one group of routes leave alone.
outsidePills == <<labVars, userVars, clientVars, planner>>
outsideDoseTable == <<labVars, interactionVars, userVars, clientVars>>
outsideDoses == <<outsideDoseTable, planner>>
outsideLab == <<pillVars, doseVars, interactionVars, userVars, clientVars, planner>>
outsideInteractions == <<doseVars, labVars, userVars, reply, clientVars, planner>>
outsideUsers == <<pillVars, doseVars, labVars, interactionVars, reply, clientVars, planner>>
outsideClient == <<pillVars, doseVars, labVars, interactionVars, userVars, reply, planner>>
outsidePlanner == <<pillVars, doseVars, labVars, interactionVars, userVars, reply, clientVars>>

----------------------------------------------------------------------------
(* Bounds *)

MaxEdits == 3       \* medication, supplement and dose edit requests in a run
MaxConcEdits == 2   \* the same, in the runs whose requests interleave
MaxUploads == 2     \* lab results ever uploaded
MaxInteractionId == 2   \* no check starts once the serial of interactions is past it
MaxClock == 3       \* the instants the wall clock goes through
MaxDay == 2         \* the local days the browser's clock goes through
MaxRenders == 2     \* the times a hook's props change
MaxSnoozes == 2     \* the calls of snoozePill

\* The SQL NULL / JS null of a nullable text column.
Null == "<null>"

Procs == {"r1", "r2"}                 \* concurrent requests of one kind
Dates == {"2024-01-01", "2024-01-02"}
GenDates == {"2024-01-01"}            \* the dates generate is asked for
TimeBlockVals == {Null, "", "morning", "evening"}

\* What the AI collaborator does with one extraction prompt: the call throws,
\* the text holds no {...}, the {...} is no JSON, the JSON is an object
\* without a markers array, or it is data of the expected shape.
CollaboratorFailures == {"throws", "noJson", "badJson"}
ExtractOutcomes == CollaboratorFailures \cup {"wrongShape", "data"}

\* An extracted marker or recommendation is a row the table takes ("ok") or
\* one that breaks a column constraint, such as a missing name ("bad").
MarkerLists == {<< >>, <<"ok", "ok">>, <<"ok", "bad">>}
RecommendationLists == {<< >>, <<"ok">>, <<"bad">>}

----------------------------------------------------------------------------
(* Storage layer *)

\* Rows of a table keyed by serial id, newest first.
RECURSIVE DescIds(_)
DescIds(S) ==
    IF S = {} THEN << >>
    ELSE LET m == CHOOSE x \in S : \A y \in S : y <= x
         IN <<m>> \o DescIds(S \ {m})

getMedications == [i \in 1..Cardinality(DOMAIN medications) |->
                     medications[DescIds(DOMAIN medications)[i]]]

getSupplements == [i \in 1..Cardinality(DOMAIN supplements) |->
                     supplements[DescIds(DOMAIN supplements)[i]]]

getPillDosesByDate(date) == {d \in pillDoses : d.scheduledDate = date}

\* An insert under a unique index on the natural key: a second row of a key
\* is not added.
createPillDoseUnique(data) ==
    IF \E d \in pillDoses :
          /\ d.pillType = data.pillType /\ d.pillId = data.pillId
          /\ d.scheduledDate = data.scheduledDate
          /\ d.scheduledTimeBlock = data.scheduledTimeBlock
    THEN pillDoses
    ELSE pillDoses \cup {[id |-> nextDoseId] @@ data}

\* INSERT ... RETURNING: the serial gives the id, the row is added.
createPillDose(data) == pillDoses \cup {[id |-> nextDoseId] @@ data}

\* UPDATE ... SET data WHERE id: the keys of data overwrite the row's.
Merge(row, data) ==
    [k \in DOMAIN row |-> IF k \in DOMAIN data THEN data[k] ELSE row[k]]

\* The timestamps left out of the update.
updatePillDoseStatusOnly(id, data) ==
    {IF d.id = id /\ "status" \in DOMAIN data
     THEN [d EXCEPT !.status = data.status] ELSE d : d \in pillDoses}

updatePillDose(id, data) ==
    {IF d.id = id THEN Merge(d, data) ELSE d : d \in pillDoses}

updateMedication(id, data) ==
    [i \in DOMAIN medications |->
        IF i = id THEN Merge(medications[i], data) ELSE medications[i]]

deleteMedication(id) == [i \in DOMAIN medications \ {id} |-> medications[i]]

updateSupplement(id, data) ==
    [i \in DOMAIN supplements |->
        IF i = id THEN Merge(supplements[i], data) ELSE supplements[i]]

deleteSupplement(id) == [i \in DOMAIN supplements \ {id} |-> supplements[i]]

----------------------------------------------------------------------------
(* Responses *)

NoReply == [status |-> 0, body |-> "none"]

\* res.status(201).json(row)
Created == [status |-> 201, body |-> "row"]

\* res.json(row)
Ok == [status |-> 200, body |-> "row"]

\* res.status(204).send()
NoContent == [status |-> 204, body |-> "empty"]

\* res.status(404).json({ error })
NotFound == [status |-> 404, body |-> "error"]

\* res.status(500).json({ error })
ServerError == [status |-> 500, body |-> "error"]

\* The delete handlers answer 204 without asking whether a row went.
DeleteReply(found) == NoContent

\* if (!row) return res.status(404)...; res.json(row)
UpdateReply(found) == IF found THEN Ok ELSE NotFound

----------------------------------------------------------------------------
(* Pill doses *)

\* A key that does not embed the time block.
DoseKeyNoBlock(pillType, pillId, timeBlock) == pillType \o "-" \o ToString(pillId)

\* The template literal `${pillType}-${pillId}-${scheduledTimeBlock}`.
DoseKey(pillType, pillId, timeBlock) ==
    pillType \o "-" \o ToString(pillId) \o "-" \o timeBlock

\* med.timeBlock || "morning": null and "" are falsy.
EffectiveTimeBlock(tb) == IF tb = Null \/ tb = "" THEN "morning" ELSE tb

\* The filter left out: every pill gets a dose.
ActivePillsAll(rows) == rows

\* .filter((m) => m.active)

ActivePills(rows) == SelectSeq(rows, LAMBDA m : m.active)

\* The new dose written as taken.
NewDoseTaken(pillType, pillId, date, timeBlock) ==
    [pillType |-> pillType, pillId |-> pillId, scheduledDate |-> date,
     scheduledTimeBlock |-> timeBlock, status |-> "taken",
     takenAt |-> Null, snoozedUntil |-> Null]

NewDose(pillType, pillId, date, timeBlock) ==
    [pillType |-> pillType, pillId |-> pillId, scheduledDate |-> date,
     scheduledTimeBlock |-> timeBlock, status |-> "pending",
     takenAt |-> Null, snoozedUntil |-> Null]

NoGenerate == [date |-> Null, response |-> {}]

\* Timestamps as a client writes them: the form toISOString gives, the same
\* instant without milliseconds, a later instant, and a string that is no date.
Iso8h == "2024-01-01T08:00:00.000Z"
Short8h == "2024-01-01T08:00:00Z"
Iso9h == "2024-01-01T09:00:00.000Z"

\* new Date(string): the instant the string names, or Invalid Date
ParseDate(str) ==
    CASE str \in {Iso8h, Short8h} -> "@8h"
      [] str = Iso9h -> "@9h"
      [] OTHER -> "Invalid Date"

\* JSON.stringify of a timestamp column: toISOString of the Date, null for NULL
FormatDate(v) ==
    CASE v = "@8h" -> Iso8h
      [] v = "@9h" -> Iso9h
      [] OTHER -> Null

DateKeys == {"takenAt", "snoozedUntil"}

\* if (typeof updateData.takenAt === "string") updateData.takenAt = new Date(...)
ConvertDates(body) ==
    [k \in DOMAIN body |->
        IF k \in DateKeys /\ body[k] # Null THEN ParseDate(body[k]) ELSE body[k]]

HasInvalidDate(updateData) ==
    \E k \in DOMAIN updateData \cap DateKeys : updateData[k] = "Invalid Date"

\* A dose as GET /api/pill-doses sends it.
FetchedDose(d) ==
    [d EXCEPT !.takenAt = FormatDate(@), !.snoozedUntil = FormatDate(@)]

\* The existing keys built without the time block: no lookup finds its key.
ExistingKeysNoBlock(doses) ==
    {d.pillType \o "-" \o ToString(d.pillId) : d \in doses}

ExistingKeys(doses) ==
    {DoseKey(d.pillType, d.pillId, d.scheduledTimeBlock) : d \in doses}

IdleGen == [pc |-> "idle", date |-> Null, existingKeys |-> {},
            medications |-> << >>, supplements |-> << >>,
            inserted |-> 0, response |-> {}, startedEmpty |-> FALSE]

\* The pills of the snapshot that the loops still insert a dose for.
Missing(pillType, rows, keys) ==
    SelectSeq(rows, LAMBDA m :
        DoseKey(pillType, m.id, EffectiveTimeBlock(m.timeBlock)) \notin keys)

NaturalKey(d) == <<d.pillType, d.pillId, d.scheduledDate, d.scheduledTimeBlock>>

\* Request slots are interchangeable: a new request takes the first free one.
FirstFree(p) == p = "r1" \/ gen["r1"].pc # "idle"

NoRequestInFlight == \A p \in Procs : gen[p].pc = "idle"

----------------------------------------------------------------------------
(* Medication and supplement CRUD: one statement each *)

\* POST /api/medications
CreateMedication(active, timeBlock) ==
    /\ medications' = medications @@
          (nextMedId :> [id |-> nextMedId, active |-> active, timeBlock |-> timeBlock])
    /\ nextMedId' = nextMedId + 1
    /\ reply' = Created
    /\ prevGenerate' = NoGenerate
    /\ edits < MaxEdits
    /\ edits' = edits + 1
    /\ UNCHANGED <<supplements, nextSuppId, pillDoses, nextDoseId, gen>>
    /\ UNCHANGED <<interactionVars, outsidePills>>

\* PATCH /api/medications/:id
UpdateMedication(id, data) ==
    /\ medications' = updateMedication(id, data)
    /\ reply' = UpdateReply(id \in DOMAIN medications)
    /\ prevGenerate' = NoGenerate
    /\ edits < MaxEdits
    /\ edits' = edits + 1
    /\ UNCHANGED <<supplements, nextMedId, nextSuppId, pillDoses, nextDoseId, gen>>
    /\ UNCHANGED <<interactionVars, outsidePills>>

\* DELETE /api/medications/:id
\* pill_doses.pill_id declared as a reference that cascades.
dosesAfterPillDeleteCascade(pillType, id) ==
    {d \in pillDoses : ~(d.pillType = pillType /\ d.pillId = id)}

\* pill_doses after a medication or supplement row is deleted: pill_id is a
\* plain integer, no foreign key, so no row goes with the pill.
dosesAfterPillDelete(pillType, id) == pillDoses

DeleteMedication(id) ==
    /\ medications' = deleteMedication(id)
    /\ reply' = DeleteReply(id \in DOMAIN medications)
    /\ prevGenerate' = NoGenerate
    /\ edits < MaxEdits
    /\ edits' = edits + 1
    /\ interactions' = {r \in interactions : r.medicationId # id}
    /\ pillDoses' = dosesAfterPillDelete("medication", id)
    /\ UNCHANGED <<supplements, nextMedId, nextSuppId, nextDoseId, gen>>
    /\ UNCHANGED <<nextInteractionId, chk, outsidePills>>

\* POST /api/supplements
CreateSupplement(active, timeBlock) ==
    /\ supplements' = supplements @@
          (nextSuppId :> [id |-> nextSuppId, active |-> active, timeBlock |-> timeBlock])
    /\ nextSuppId' = nextSuppId + 1
    /\ reply' = Created
    /\ prevGenerate' = NoGenerate
    /\ edits < MaxEdits
    /\ edits' = edits + 1
    /\ UNCHANGED <<medications, nextMedId, pillDoses, nextDoseId, gen>>
    /\ UNCHANGED <<interactionVars, outsidePills>>

\* PATCH /api/supplements/:id
UpdateSupplement(id, data) ==
    /\ supplements' = updateSupplement(id, data)
    /\ reply' = UpdateReply(id \in DOMAIN supplements)
    /\ prevGenerate' = NoGenerate
    /\ edits < MaxEdits
    /\ edits' = edits + 1
    /\ UNCHANGED <<medications, nextMedId, nextSuppId, pillDoses, nextDoseId, gen>>
    /\ UNCHANGED <<interactionVars, outsidePills>>

\* DELETE /api/supplements/:id
DeleteSupplement(id) ==
    /\ supplements' = deleteSupplement(id)
    /\ reply' = DeleteReply(id \in DOMAIN supplements)
    /\ prevGenerate' = NoGenerate
    /\ edits < MaxEdits
    /\ edits' = edits + 1
    /\ interactions' = {r \in interactions : r.supplementId # id}
    /\ pillDoses' = dosesAfterPillDelete("supplement", id)
    /\ UNCHANGED <<medications, nextMedId, nextSuppId, nextDoseId, gen>>
    /\ UNCHANGED <<nextInteractionId, chk, outsidePills>>

----------------------------------------------------------------------------
(* Pill-dose handlers *)

\* POST /api/pill-doses: the parsed body is inserted as it is.
PostPillDose(data) ==
    /\ pillDoses' = createPillDose(data)
    /\ reply' = Created
    /\ nextDoseId' = nextDoseId + 1
    /\ prevGenerate' = NoGenerate
    /\ edits < MaxEdits
    /\ edits' = edits + 1
    /\ UNCHANGED <<medications, supplements, nextMedId, nextSuppId, gen>>
    /\ UNCHANGED outsideDoses

\* PATCH /api/pill-doses/:id: req.body, its date strings made Dates, is the
\* update; an Invalid Date makes the query throw.
servePatchPillDose(id, data) ==
    /\ IF HasInvalidDate(ConvertDates(data))
       THEN /\ pillDoses' = pillDoses
            /\ reply' = ServerError
       ELSE /\ pillDoses' = updatePillDose(id, ConvertDates(data))
            /\ reply' = UpdateReply(\E d \in pillDoses : d.id = id)
    /\ prevGenerate' = NoGenerate
    /\ edits < MaxEdits
    /\ edits' = edits + 1
    /\ UNCHANGED <<medications, supplements, nextMedId, nextSuppId, nextDoseId, gen>>
    /\ UNCHANGED outsideDoseTable

\* PATCH /api/pill-doses/:id sent by any client but the planner page.
PatchPillDose(id, data) == servePatchPillDose(id, data) /\ UNCHANGED planner

\* POST /api/pill-doses/generate, up to its first await: the doses of the
\* date are read and their keys kept for the whole request.
GenStart(p, date) ==
    /\ gen[p].pc = "idle"
    /\ gen' = [gen EXCEPT ![p] =
          [IdleGen EXCEPT !.pc = "readMeds", !.date = date,
             !.existingKeys = ExistingKeys(getPillDosesByDate(date)),
             !.startedEmpty = (getPillDosesByDate(date) = {})]]
    /\ UNCHANGED <<pillVars, pillDoses, nextDoseId, prevGenerate>>
    /\ UNCHANGED <<outsideDoses, reply>>

GenReadMedications(p) ==
    /\ gen[p].pc = "readMeds"
    /\ gen' = [gen EXCEPT ![p].pc = "readSupps",
                          ![p].medications = ActivePills(getMedications)]
    /\ UNCHANGED <<pillVars, pillDoses, nextDoseId, prevGenerate>>
    /\ UNCHANGED <<outsideDoses, reply>>

GenReadSupplements(p) ==
    /\ gen[p].pc = "readSupps"
    /\ gen' = [gen EXCEPT ![p].pc = "loop",
                          ![p].supplements = ActivePills(getSupplements)]
    /\ UNCHANGED <<pillVars, pillDoses, nextDoseId, prevGenerate>>
    /\ UNCHANGED <<outsideDoses, reply>>

\* One createPillDose of the medication loop: the iterations that find
\* their key in existingKeys run through without an await.
GenInsertMedication(p) ==
    LET todo == Missing("medication", gen[p].medications, gen[p].existingKeys) IN
    /\ gen[p].pc = "loop"
    /\ todo # << >>
    /\ pillDoses' = createPillDose(NewDose("medication", Head(todo).id, gen[p].date,
                                           EffectiveTimeBlock(Head(todo).timeBlock)))
    /\ nextDoseId' = nextDoseId + 1
    /\ gen' = [gen EXCEPT ![p].medications = Tail(todo),
                          ![p].inserted = @ + 1]
    /\ UNCHANGED <<pillVars, prevGenerate>>
    /\ UNCHANGED <<outsideDoses, reply>>

GenInsertSupplement(p) ==
    LET todo == Missing("supplement", gen[p].supplements, gen[p].existingKeys) IN
    /\ gen[p].pc = "loop"
    /\ Missing("medication", gen[p].medications, gen[p].existingKeys) = << >>
    /\ todo # << >>
    /\ pillDoses' = createPillDose(NewDose("supplement", Head(todo).id, gen[p].date,
                                           EffectiveTimeBlock(Head(todo).timeBlock)))
    /\ nextDoseId' = nextDoseId + 1
    /\ gen' = [gen EXCEPT ![p].medications = << >>,
                          ![p].supplements = Tail(todo),
                          ![p].inserted = @ + 1]
    /\ UNCHANGED <<pillVars, prevGenerate>>
    /\ UNCHANGED <<outsideDoses, reply>>

\* The final getPillDosesByDate and res.json(allDoses).
GenRespond(p) ==
    /\ gen[p].pc = "loop"
    /\ Missing("medication", gen[p].medications, gen[p].existingKeys) = << >>
    /\ Missing("supplement", gen[p].supplements, gen[p].existingKeys) = << >>
    /\ gen' = [gen EXCEPT ![p].pc = "done",
                          ![p].medications = << >>,
                          ![p].supplements = << >>,
                          ![p].response = getPillDosesByDate(gen[p].date)]
    /\ UNCHANGED <<pillVars, pillDoses, nextDoseId, prevGenerate>>
    /\ UNCHANGED <<outsideDoses, reply>>

\* The response has been sent: the request is over.
GenReturn(p) ==
    /\ gen[p].pc = "done"
    /\ gen' = [gen EXCEPT ![p] = IdleGen]
    /\ prevGenerate' = [date |-> gen[p].date, response |-> gen[p].response]
    /\ UNCHANGED <<pillVars, pillDoses, nextDoseId>>
    /\ UNCHANGED <<outsideDoses, reply>>

----------------------------------------------------------------------------
(* Lab results: upload, the detached processLabResult task, delete *)

NoTask == [pc |-> "none", outcome |-> Null, markers |-> << >>,
           recommendations |-> << >>, written |-> 0, response |-> Null,
           extractedData |-> [markers |-> << >>, recommendations |-> << >>]]

\* The row of the n-th marker or recommendation extracted for a lab result.
\* The serial id of these two tables is left out: nothing reads it.
ExtractedRow(labResultId, n) == [labResultId |-> labResultId, item |-> n]

\* lab_result_id references lab_results(id): the insert of a row whose
\* parent is gone, or that breaks a column constraint, throws.
InsertAcceptedNoForeignKey(labResultId, row) == row = "ok"

InsertAccepted(labResultId, row) ==
    row = "ok" /\ labResultId \in DOMAIN labResults

updateLabResult(id, data) ==
    [i \in DOMAIN labResults |->
        IF i = id THEN Merge(labResults[i], data) ELSE labResults[i]]

\* What extractLabData returns: every failure it catches becomes the empty
\* result.
ExtractedData(outcome, markers, recs) ==
    IF outcome \in CollaboratorFailures
    THEN [markers |-> << >>, recommendations |-> << >>]
    ELSE [markers |-> markers, recommendations |-> recs]

\* Whether the collaborator failed, for the record of the task.
OutcomeKind(outcome) ==
    IF outcome \in CollaboratorFailures THEN "failed" ELSE outcome

\* A failure of the collaborator passed on to processLabResult.
ThrowsOnFailure(outcome) == outcome # "data"

\* Whether processLabResult throws on what extractLabData returned: a parsed
\* object without a markers array is not iterable.
Throws(outcome) == outcome = "wrongShape"

\* A catch that stores the text as well.
CatchDataWithText == [status |-> "error", rawText |-> "text"]

\* The update of the catch block
CatchData == [status |-> "error"]

\* The try block's catch runs once, for the statement that threw.
CatchPendingAfterCompletion(pc) == pc \in {"catch", "finished"}

CatchPending(pc) == pc = "catch"

\* POST /api/lab-results/upload: the row is created "processing", the task
\* is started and runs up to its AI call, the created row is the response.
UploadLabResult ==
    /\ nextLabId <= MaxUploads
    /\ labResults' = labResults @@
          (nextLabId :> [id |-> nextLabId, status |-> "processing", rawText |-> Null])
    /\ nextLabId' = nextLabId + 1
    /\ task' = task @@
          (nextLabId :> [NoTask EXCEPT !.pc = "extract", !.response = "processing"])
    /\ reply' = Created
    /\ UNCHANGED <<healthMarkers, recommendations>>
    /\ UNCHANGED outsideLab

\* The AI call of extractLabData comes back.  A JSON object without a
\* markers array makes the first for-of of processLabResult throw.
TaskExtract(id, outcome, markers, recs) ==
    /\ id \in DOMAIN task
    /\ task[id].pc = "extract"
    /\ outcome = "data" \/ (markers = << >> /\ recs = << >>)
    /\ task' = [task EXCEPT ![id] =
          IF Throws(outcome)
          THEN [@ EXCEPT !.pc = "catch", !.outcome = OutcomeKind(outcome)]
          ELSE [@ EXCEPT !.pc = "persist", !.outcome = OutcomeKind(outcome),
                  !.extractedData = ExtractedData(outcome, markers, recs),
                  !.markers = ExtractedData(outcome, markers, recs).markers,
                  !.recommendations =
                      ExtractedData(outcome, markers, recs).recommendations]]
    /\ UNCHANGED <<labResults, nextLabId, healthMarkers, recommendations>>
    /\ UNCHANGED <<outsideLab, reply>>

\* One createHealthMarker of the first loop.
TaskInsertMarker(id) ==
    /\ id \in DOMAIN task
    /\ task[id].pc = "persist"
    /\ task[id].markers # << >>
    /\ IF InsertAccepted(id, Head(task[id].markers))
       THEN /\ healthMarkers' = healthMarkers \cup
                   {ExtractedRow(id, task[id].written + 1)}
            /\ task' = [task EXCEPT ![id].markers = Tail(@),
                                    ![id].written = @ + 1]
       ELSE /\ task' = [task EXCEPT ![id].pc = "catch"]
            /\ UNCHANGED healthMarkers
    /\ UNCHANGED <<labResults, nextLabId, recommendations>>
    /\ UNCHANGED <<outsideLab, reply>>

\* One createRecommendation of the second loop.
TaskInsertRecommendation(id) ==
    /\ id \in DOMAIN task
    /\ task[id].pc = "persist"
    /\ task[id].markers = << >>
    /\ task[id].recommendations # << >>
    /\ IF InsertAccepted(id, Head(task[id].recommendations))
       THEN /\ recommendations' = recommendations \cup
                   {ExtractedRow(id, task[id].written + 1)}
            /\ task' = [task EXCEPT ![id].recommendations = Tail(@),
                                    ![id].written = @ + 1]
       ELSE /\ task' = [task EXCEPT ![id].pc = "catch"]
            /\ UNCHANGED recommendations
    /\ UNCHANGED <<labResults, nextLabId, healthMarkers>>
    /\ UNCHANGED <<outsideLab, reply>>

\* The second loop left out.
LoopsDoneMarkersOnly(t) == t.markers = << >>

\* Both for-of loops have run through.
LoopsDone(t) == t.markers = << >> /\ t.recommendations = << >>

\* updateLabResult(labResultId, {status: "completed", rawText})
TaskComplete(id) ==
    /\ id \in DOMAIN task
    /\ task[id].pc = "persist"
    /\ LoopsDone(task[id])
    /\ labResults' = updateLabResult(id, [status |-> "completed", rawText |-> "text"])
    /\ task' = [task EXCEPT ![id].pc = "finished"]
    /\ UNCHANGED <<nextLabId, healthMarkers, recommendations>>
    /\ UNCHANGED <<outsideLab, reply>>

\* catch: updateLabResult(labResultId, {status: "error"})
TaskCatch(id) ==
    /\ id \in DOMAIN task
    /\ CatchPending(task[id].pc)
    /\ labResults' = updateLabResult(id, CatchData)
    /\ task' = [task EXCEPT ![id].pc = "caught"]
    /\ UNCHANGED <<nextLabId, healthMarkers, recommendations>>
    /\ UNCHANGED <<outsideLab, reply>>

\* DELETE /api/lab-results/:id: the row goes, and ON DELETE CASCADE takes
\* the markers and recommendations that reference it.
DeleteLabResult(id) ==
    /\ labResults' = [i \in DOMAIN labResults \ {id} |-> labResults[i]]
    /\ reply' = DeleteReply(id \in DOMAIN labResults)
    /\ healthMarkers' = {m \in healthMarkers : m.labResultId # id}
    /\ recommendations' = {r \in recommendations : r.labResultId # id}
    /\ UNCHANGED <<nextLabId, task>>
    /\ UNCHANGED outsideLab

----------------------------------------------------------------------------
(* Interaction check *)

IdleChk == [pc |-> "idle", medications |-> << >>, supplements |-> << >>,
            results |-> << >>, returned |-> << >>, before |-> {},
            aiCalled |-> FALSE, status |-> 0, response |-> {}]

getInteractions == interactions

\* The delete left out: the new rows are merged into the old ones.
deleteNoInteractions == interactions

deleteAllInteractions == {}

\* checkInteractions calls the collaborator when neither list is empty.
NeedsCollaboratorForgetsSupplements(meds, supps) == Len(meds) # 0

NeedsCollaborator(meds, supps) == ~(Len(meds) = 0 \/ Len(supps) = 0)

\* medication_id and supplement_id reference their tables: the insert of a
\* row whose medication or supplement is gone throws.
InteractionAcceptedNoForeignKey(result) == TRUE

InteractionAccepted(result) ==
    /\ result.medicationId \in DOMAIN medications
    /\ result.supplementId \in DOMAIN supplements

\* POST /api/interactions/check up to its first await: getMedications.
ChkStart(p) ==
    /\ chk[p].pc = "idle"
    /\ nextInteractionId <= MaxInteractionId
    /\ chk' = [chk EXCEPT ![p] =
          [IdleChk EXCEPT !.pc = "readSupps", !.before = interactions,
                          !.medications = ActivePills(getMedications)]]
    /\ UNCHANGED <<pillVars, interactions, nextInteractionId>>
    /\ UNCHANGED outsideInteractions

\* getSupplements, then checkInteractions up to its AI call, or, with an
\* empty list, through to the deleteAllInteractions of the handler.
ChkReadSupplements(p) ==
    /\ chk[p].pc = "readSupps"
    /\ LET supps == ActivePills(getSupplements) IN
       chk' = [chk EXCEPT ![p].supplements = supps,
                          ![p].pc = IF NeedsCollaborator(chk[p].medications, supps)
                                    THEN "collaborator" ELSE "deleteAll"]
    /\ UNCHANGED <<pillVars, interactions, nextInteractionId>>
    /\ UNCHANGED outsideInteractions

\* The AI call comes back: checkInteractions returns data.interactions, or
\* [] when the call threw or its text did not parse.
ChkCollaborator(p, results) ==
    /\ chk[p].pc = "collaborator"
    /\ chk' = [chk EXCEPT ![p].pc = "deleteAll", ![p].aiCalled = TRUE,
                          ![p].results = results, ![p].returned = results]
    /\ UNCHANGED <<pillVars, interactions, nextInteractionId>>
    /\ UNCHANGED outsideInteractions

ChkDeleteAll(p) ==
    /\ chk[p].pc = "deleteAll"
    /\ interactions' = deleteAllInteractions
    /\ chk' = [chk EXCEPT ![p].pc = "insert"]
    /\ UNCHANGED <<pillVars, nextInteractionId>>
    /\ UNCHANGED outsideInteractions

\* The handler run in a transaction that the throw rolls back.
interactionsAfterThrowRolledBack(p) == chk[p].before

\* The table after a createInteraction has thrown: the handler's catch only
\* answers, and nothing ran in a transaction.
interactionsAfterThrow(p) == interactions

\* One createInteraction of the loop; a throw is answered with 500.
ChkInsert(p) ==
    /\ chk[p].pc = "insert"
    /\ chk[p].results # << >>
    /\ IF InteractionAccepted(Head(chk[p].results))
       THEN /\ interactions' = interactions \cup
                   {[id |-> nextInteractionId,
                     medicationId |-> Head(chk[p].results).medicationId,
                     supplementId |-> Head(chk[p].results).supplementId]}
            /\ nextInteractionId' = nextInteractionId + 1
            /\ chk' = [chk EXCEPT ![p].results = Tail(@)]
       ELSE /\ chk' = [chk EXCEPT ![p].pc = "done", ![p].status = 500]
            /\ interactions' = interactionsAfterThrow(p)
            /\ UNCHANGED nextInteractionId
    /\ UNCHANGED pillVars
    /\ UNCHANGED outsideInteractions

\* getInteractions and res.json(savedInteractions)
ChkRespond(p) ==
    /\ chk[p].pc = "insert"
    /\ chk[p].results = << >>
    /\ chk' = [chk EXCEPT ![p].pc = "done", ![p].status = 200,
                          ![p].response = getInteractions]
    /\ UNCHANGED <<pillVars, interactions, nextInteractionId>>
    /\ UNCHANGED outsideInteractions

\* The response has been sent: the request is over.
ChkReturn(p) ==
    /\ chk[p].pc = "done"
    /\ chk' = [chk EXCEPT ![p] = IdleChk]
    /\ UNCHANGED <<pillVars, interactions, nextInteractionId>>
    /\ UNCHANGED outsideInteractions

----------------------------------------------------------------------------
(* The demo user and its health profile *)

DEMO_USER_ID == "demo-user"

\* gen_random_uuid(): a value no other row has, and never "demo-user".
Uuid(n) == "uuid-" \o ToString(n)

\* { ...a, ...b }
Spread(a, b) ==
    [k \in DOMAIN a \cup DOMAIN b |-> IF k \in DOMAIN b THEN b[k] ELSE a[k]]

\* healthProfileSchema: every key optional, the numbers within their ranges,
\* the enums within their values.
NumberRanges ==
    [age |-> <<1, 150>>, heightCm |-> <<50, 300>>, weightKg |-> <<10, 500>>]

EnumValues ==
    [sex |-> {"male", "female", "other"}, activityLevel |-> {"low", "moderate", "high"}]

healthProfileSchema(body) ==
    /\ \A k \in DOMAIN body \cap DOMAIN NumberRanges :
          body[k] >= NumberRanges[k][1] /\ body[k] <= NumberRanges[k][2]
    /\ \A k \in DOMAIN body \cap DOMAIN EnumValues : body[k] \in EnumValues[k]

\* typeof hp[k] === "number", for a key the schema declares a number
IsNumber(hp, k) == k \in DOMAIN hp

\* The weight left out of the test.
computeHealthProfileCompleteForgetsWeight(hp) ==
    IsNumber(hp, "age") /\ IsNumber(hp, "heightCm")

computeHealthProfileComplete(hp) ==
    IsNumber(hp, "age") /\ IsNumber(hp, "heightCm") /\ IsNumber(hp, "weightKg")

EmptyProfile == [k \in {} |-> 0]

getUser(id) == {u \in users : u.id = id}

getUserByUsername(username) == {u \in users : u.username = username}

updateUser(id, data) == {IF u.id = id THEN Merge(u, data) ELSE u : u \in users}

\* The unique constraint left out.
UsernameNeverTaken(username) == FALSE

\* users_username_unique: an insert of a username some row has throws.
UsernameTaken(username) == getUserByUsername(username) # {}

\* A string, or null, that JavaScript takes for true in a condition.
Truthy(v) == v \notin {Null, ""}

\* The skip left out of the test.
shouldShowHealthOnboardingIgnoresSkip(user) ==
    \E u \in user :
        LET status == IF "healthProfileStatus" \in DOMAIN u
                      THEN u.healthProfileStatus ELSE [isComplete |-> FALSE] IN
        ~status.isComplete

\* shouldShowHealthOnboarding of the client, of the user the query holds
\* (no row while it is undefined).
shouldShowHealthOnboarding(user) ==
    \E u \in user :
        LET status == IF "healthProfileStatus" \in DOMAIN u
                      THEN u.healthProfileStatus ELSE [isComplete |-> FALSE] IN
        /\ ~status.isComplete
        /\ ~("skippedAt" \in DOMAIN status /\ Truthy(status.skippedAt))

IdleReq == [pc |-> "idle", kind |-> Null, updates |-> EmptyProfile,
            user |-> {}, status |-> 0, updated |-> {}]

\* Where a handler goes on once it holds the user.
AfterUser(p, found) ==
    IF req[p].kind = "me"
    THEN [req[p] EXCEPT !.pc = "done", !.status = 200, !.user = found]
    ELSE [req[p] EXCEPT !.pc = "update", !.user = found]

\* GET /api/me and POST /api/me/health-profile/skip begin.
ReqStart(p, kind) ==
    /\ req[p].pc = "idle"
    /\ req' = [req EXCEPT ![p] = [IdleReq EXCEPT !.pc = "getByUsername", !.kind = kind]]
    /\ UNCHANGED <<users, nextUserId, clock>>
    /\ UNCHANGED outsideUsers

\* PATCH /api/me/health-profile begins: safeParse, 400 when it fails.
PatchStart(p, body) ==
    /\ req[p].pc = "idle"
    /\ req' = [req EXCEPT ![p] =
          IF healthProfileSchema(body)
          THEN [IdleReq EXCEPT !.pc = "getByUsername", !.kind = "patch", !.updates = body]
          ELSE [IdleReq EXCEPT !.pc = "done", !.kind = "patch", !.status = 400]]
    /\ UNCHANGED <<users, nextUserId, clock>>
    /\ UNCHANGED outsideUsers

\* storage.getUserByUsername("demo")
ReqGetByUsername(p) ==
    /\ req[p].pc = "getByUsername"
    /\ LET found == getUserByUsername("demo") IN
       req' = [req EXCEPT ![p] =
          IF found = {} THEN [@ EXCEPT !.pc = "ensureGetUser"] ELSE AfterUser(p, found)]
    /\ UNCHANGED <<users, nextUserId, clock>>
    /\ UNCHANGED outsideUsers

\* ensureDemoUser: storage.getUser(DEMO_USER_ID)
EnsureGetUser(p) ==
    /\ req[p].pc = "ensureGetUser"
    /\ LET found == getUser(DEMO_USER_ID) IN
       req' = [req EXCEPT ![p] =
          IF found = {} THEN [@ EXCEPT !.pc = "ensureCreate"] ELSE AfterUser(p, found)]
    /\ UNCHANGED <<users, nextUserId, clock>>
    /\ UNCHANGED outsideUsers

\* ensureDemoUser: storage.createUser; username is unique, a second "demo"
\* throws and the handler answers 500.
EnsureCreate(p) ==
    /\ req[p].pc = "ensureCreate"
    /\ IF UsernameTaken("demo")
       THEN /\ req' = [req EXCEPT ![p].pc = "done", ![p].status = 500]
            /\ UNCHANGED <<users, nextUserId, clock>>
       ELSE LET created == [id |-> Uuid(nextUserId), username |-> "demo",
                            healthProfile |-> EmptyProfile,
                            healthProfileStatus |-> [isComplete |-> FALSE]] IN
            /\ users' = users \cup {created}
            /\ nextUserId' = nextUserId + 1
            /\ req' = [req EXCEPT ![p].pc = "ensureUpdate", ![p].user = {created}]
    /\ UNCHANGED clock
    /\ UNCHANGED outsideUsers

\* ensureDemoUser: storage.updateUser with the empty profile; the handler
\* goes on with the row createUser returned.
EnsureUpdate(p) ==
    /\ req[p].pc = "ensureUpdate"
    /\ \E user \in req[p].user :
          users' = updateUser(user.id, [healthProfile |-> EmptyProfile,
                                        healthProfileStatus |-> [isComplete |-> FALSE]])
    /\ req' = [req EXCEPT ![p] = AfterUser(p, req[p].user)]
    /\ UNCHANGED <<nextUserId, clock>>
    /\ UNCHANGED outsideUsers

\* new Date().toISOString()
Now == "t" \o ToString(clock)

\* The old status carried over into the new one.
PatchStatusKeepsSkippedAt(status, newHealthProfile) ==
    Spread(status, [isComplete |-> computeHealthProfileComplete(newHealthProfile),
                    lastUpdated |-> Now])

\* newStatus of the PATCH: skippedAt: undefined is not stored by the jsonb
\* column, so the stored object has no such key.
PatchStatus(status, newHealthProfile) ==
    [isComplete |-> computeHealthProfileComplete(newHealthProfile),
     lastUpdated |-> Now]

\* The skip stamped as an update as well.
SkipStatusStampsUpdate(status) ==
    Spread(status, [skippedAt |-> Now, lastUpdated |-> Now])

\* newStatus of the skip
SkipStatus(status) == Spread(status, [skippedAt |-> Now])

\* The patch written in place of the merged profile.
NewUserDataReplacesProfile(kind, user, updates) ==
    IF kind = "patch"
    THEN [healthProfile |-> updates,
          healthProfileStatus |-> PatchStatus(user.healthProfileStatus, updates)]
    ELSE [healthProfileStatus |-> SkipStatus(user.healthProfileStatus)]

\* What the PATCH and the skip handler write, from the user they read.
NewUserData(kind, user, updates) ==
    IF kind = "patch"
    THEN LET newHealthProfile == Spread(user.healthProfile, updates) IN
         [healthProfile |-> newHealthProfile,
          healthProfileStatus |-> PatchStatus(user.healthProfileStatus, newHealthProfile)]
    ELSE [healthProfileStatus |-> SkipStatus(user.healthProfileStatus)]

\* Time passes.
Tick ==
    /\ clock < MaxClock
    /\ clock' = clock + 1
    /\ UNCHANGED <<users, nextUserId, req>>
    /\ UNCHANGED outsideUsers

\* storage.updateUser of the PATCH and of the skip handler, and the answer.
ReqUpdate(p) ==
    /\ req[p].pc = "update"
    /\ \E user \in req[p].user :
          /\ users' = updateUser(user.id, NewUserData(req[p].kind, user, req[p].updates))
          /\ req' = [req EXCEPT ![p].pc = "done",
                                ![p].updated = {u \in users' : u.id = user.id},
                                ![p].status = IF \E u \in users : u.id = user.id
                                              THEN 200 ELSE 404]
    /\ UNCHANGED <<nextUserId, clock>>
    /\ UNCHANGED outsideUsers

\* The response has been sent: the request is over.
ReqReturn(p) ==
    /\ req[p].pc = "done"
    /\ req' = [req EXCEPT ![p] = IdleReq]
    /\ UNCHANGED <<users, nextUserId, clock>>
    /\ UNCHANGED outsideUsers

----------------------------------------------------------------------------
(* The browser: its clock and its notifications *)

\* The clock counts the half minutes of the local day: the hooks look at it
\* every 30000 ms.
HalfMinutesPerDay == 24 * 60 * 2

\* The half minute that begins at hh:mm:00 (half = 0) or hh:mm:30 (half = 1).
HalfMinute(hh, mm, half) == (hh * 60 + mm) * 2 + half

\* The instants of a day the clock is looked at, besides those a timer is
\* due at.
TimesOfDay ==
    {0, HalfMinute(5, 59, 1), HalfMinute(6, 0, 0), HalfMinute(6, 0, 1),
     HalfMinute(6, 1, 0), HalfMinute(15, 0, 0)}

StartOfDay == [day |-> 1, t |-> 0]

\* Local time minus UTC, in half minutes, of the zones the page is loaded in.
UtcOffsets == {0, 12 * 60 * 2}

NoPage == [loaded |-> FALSE, permission |-> "default", utcOffset |-> 0]

\* String(n).padStart(2, "0")
PadStart2(n) == IF n < 10 THEN "0" \o ToString(n) ELSE ToString(n)

\* `${getHours()}:${getMinutes()}`, both padded
CurrentTime(at) ==
    PadStart2((at.t \div 2) \div 60) \o ":" \o PadStart2((at.t \div 2) % 60)

days == <<"sunday", "monday", "tuesday", "wednesday", "thursday", "friday", "saturday">>

\* now.getDay(): local day 1 is a Monday.
GetDay(at) == at.day % 7

CurrentDay(at) == days[GetDay(at) + 1]

\* now.toISOString().split("T")[0]: the date in UTC.
TodayKey(at) ==
    "day" \o ToString(at.day + ((at.t - device.utcOffset) \div HalfMinutesPerDay))

Later(a, b) == b.day > a.day \/ (b.day = a.day /\ b.t > a.t)

\* The page is loaded in some zone, with the permission the browser holds.
PageLoad(permission, utcOffset) ==
    /\ ~device.loaded
    /\ device' = [loaded |-> TRUE, permission |-> permission, utcOffset |-> utcOffset]
    /\ UNCHANGED <<now, notifications, remHook, pillHook>>
    /\ UNCHANGED outsideClient

\* The user answers the permission prompt.
PermissionAnswer(permission) ==
    /\ device.loaded
    /\ device.permission = "default"
    /\ device' = [device EXCEPT !.permission = permission]
    /\ UNCHANGED <<now, notifications, remHook, pillHook>>
    /\ UNCHANGED outsideClient

----------------------------------------------------------------------------
(* useReminderNotifications *)

\* The hook before its effect has run: reminders undefined, no interval.
UnmountedReminders ==
    [reminders |-> {}, defined |-> FALSE, firedToday |-> {}, interval |-> {}, renders |-> 0]

\* `${reminder.id}-${todayKey}`
ReminderKey(reminder, at) == ToString(reminder.id) \o "-" \o TodayKey(at)

\* (reminder.days as string[]) || []: a row whose days is null has no days here.
ReminderDays(reminder) == IF "days" \in DOMAIN reminder THEN reminder.days ELSE {}

\* The reminders checkReminders notifies of at an instant.
RemindersDue(reminders, firedToday, at) ==
    {r \in reminders :
        /\ r.enabled = TRUE
        /\ r.time = CurrentTime(at)
        /\ CurrentDay(at) \in ReminderDays(r)
        /\ ReminderKey(r, at) \notin firedToday}

\* new Notification("Test", ...) of every enabled reminder, at every check.
TestNotifications(reminders, at) ==
    {[title |-> "Test", about |-> r.id, at |-> at] : r \in {e \in reminders : e.enabled = TRUE}}

ReminderNotifications(reminders, firedToday, at) ==
    {[title |-> r.title, about |-> r.id, at |-> at] : r \in RemindersDue(reminders, firedToday, at)}

\* checkReminders: the hook and the notifications after it.
checkReminders(hook, at) ==
    IF device.permission # "granted"
    THEN [hook |-> hook, shown |-> {}]
    ELSE [hook |-> [hook EXCEPT !.firedToday = @ \cup
                       {ReminderKey(r, at) : r \in RemindersDue(hook.reminders, @, at)}],
          shown |-> TestNotifications(hook.reminders, at)
                       \cup ReminderNotifications(hook.reminders, hook.firedToday, at)]

\* The effect of [reminders]: the cleanup of the one before, the check on
\* mount and the interval, unless reminders is undefined.
ReminderRender(reminders) ==
    /\ device.loaded
    /\ remHook.renders < MaxRenders
    /\ LET hook == [remHook EXCEPT !.reminders = reminders, !.defined = TRUE,
                                   !.interval = {now}, !.renders = @ + 1]
           checked == checkReminders(hook, now) IN
       /\ remHook' = checked.hook
       /\ notifications' = notifications (+) SetToBag(checked.shown)
    /\ UNCHANGED <<now, device, pillHook>>
    /\ UNCHANGED outsideClient

\* setInterval(checkReminders, 30000): a tick, 30 s or more after the one before.
ReminderInterval ==
    /\ \E last \in remHook.interval : Later(last, now)
    /\ LET checked == checkReminders([remHook EXCEPT !.interval = {now}], now) IN
       /\ remHook' = checked.hook
       /\ notifications' = notifications (+) SetToBag(checked.shown)
    /\ UNCHANGED <<now, device, pillHook>>
    /\ UNCHANGED outsideClient

----------------------------------------------------------------------------
(* usePillNotifications *)

timeBlockTriggers ==
    [morning |-> "06:00", midday |-> "11:00", evening |-> "15:00", bedtime |-> "20:00"]

\* SNOOZE_DURATION_MS, in half minutes
SNOOZE_DURATION == 10 * 2

\* The hook before its effect has run.
UnmountedPills ==
    [medications |-> << >>, supplements |-> << >>, firedToday |-> {},
     snoozedPills |-> {}, timeouts |-> {}, interval |-> {}, renders |-> 0, snoozes |-> 0]

\* Every row taken for active.
ActiveRowsAll(rows) == {i \in DOMAIN rows : TRUE}

\* rows.filter((m) => m.active)
ActiveRows(rows) == {i \in DOMAIN rows : rows[i].active = TRUE}

\* m.timeBlock || "morning"
BlockOf(row) == IF row.timeBlock \in {Null, ""} THEN "morning" ELSE row.timeBlock

\* allPills: the active medications, then the active supplements, each with
\* its type, id, name and time block.
allPills(hook) ==
    LET picked(rows, type) ==
           SelectSeq([i \in DOMAIN rows |->
                         [id |-> rows[i].id, type |-> type, name |-> rows[i].name,
                          timeBlock |-> BlockOf(rows[i]), active |-> i \in ActiveRows(rows)]],
                     LAMBDA pill : pill.active)
    IN  picked(hook.medications, "medication") \o picked(hook.supplements, "supplement")

\* grouped.get(timeBlock)
Grouped(pills, timeBlock) == SelectSeq(pills, LAMBDA pill : pill.timeBlock = timeBlock)

\* names.join(", ")
RECURSIVE Join(_)
Join(pills) ==
    IF pills = << >> THEN ""
    ELSE IF Len(pills) = 1 THEN pills[1].name
    ELSE pills[1].name \o ", " \o Join(Tail(pills))

\* `pills-${timeBlock}-${todayKey}`
PillKey(timeBlock, at) == "pills-" \o timeBlock \o "-" \o TodayKey(at)

\* The time blocks checkPills notifies of at an instant.
BlocksDue(hook, at) ==
    {timeBlock \in {pill.timeBlock : pill \in {allPills(hook)[i] : i \in DOMAIN allPills(hook)}} :
        /\ timeBlock \in DOMAIN timeBlockTriggers
        /\ CurrentTime(at) = timeBlockTriggers[timeBlock]
        /\ PillKey(timeBlock, at) \notin hook.firedToday}

\* checkPills: the hook and the notifications after it.
checkPills(hook, at) ==
    IF device.permission # "granted"
    THEN [hook |-> hook, shown |-> {}]
    ELSE [hook |-> [hook EXCEPT !.firedToday = @ \cup
                       {PillKey(timeBlock, at) : timeBlock \in BlocksDue(hook, at)}],
          shown |-> {[title |-> "Time for your " \o timeBlock \o " pills",
                      body |-> Join(Grouped(allPills(hook), timeBlock)),
                      about |-> timeBlock, at |-> at] : timeBlock \in BlocksDue(hook, at)}]

\* clearTimeout of the timeouts some entries of the map hold: they are no
\* longer pending.
clearTimeouts(timeouts, entries) ==
    {timeout \in timeouts : timeout.handle \notin {entry.timeout : entry \in entries}}

\* The effect of [medications, supplements]: the cleanup of the one before
\* (the interval and every snooze timer), the check on mount, the interval.
PillRender(meds, supps) ==
    /\ device.loaded
    /\ pillHook.renders < MaxRenders
    /\ LET hook == [pillHook EXCEPT !.medications = meds, !.supplements = supps,
                                    !.timeouts = clearTimeouts(@, pillHook.snoozedPills),
                                    !.snoozedPills = {},
                                    !.interval = {now}, !.renders = @ + 1]
           checked == checkPills(hook, now) IN
       /\ pillHook' = checked.hook
       /\ notifications' = notifications (+) SetToBag(checked.shown)
    /\ UNCHANGED <<now, device, remHook>>
    /\ UNCHANGED outsideClient

\* setInterval(checkPills, 30000): a tick, 30 s or more after the one before.
PillInterval ==
    /\ \E last \in pillHook.interval : Later(last, now)
    /\ LET checked == checkPills([pillHook EXCEPT !.interval = {now}], now) IN
       /\ pillHook' = checked.hook
       /\ notifications' = notifications (+) SetToBag(checked.shown)
    /\ UNCHANGED <<now, device, remHook>>
    /\ UNCHANGED outsideClient

\* The instant a number of half minutes after another.
After(at, halfMinutes) ==
    [day |-> at.day + ((at.t + halfMinutes) \div HalfMinutesPerDay),
     t |-> (at.t + halfMinutes) % HalfMinutesPerDay]

\* The timeouts of the browser that are pending.
Timers == pillHook.timeouts

\* snoozePill: the hook after it. The map holds one entry per key.
snoozePill(hook, timeBlock, pillNames, at) ==
    LET key == PillKey(timeBlock, at)
        handle == hook.snoozes + 1 IN
    [hook EXCEPT
       !.firedToday = @ \ {key},
       !.timeouts = clearTimeouts(@, {entry \in hook.snoozedPills : entry.key = key})
                       \cup {[handle |-> handle, key |-> key, timeBlock |-> timeBlock,
                              body |-> pillNames, due |-> After(at, SNOOZE_DURATION)]},
       !.snoozedPills = {entry \in @ : entry.key # key}
                           \cup {[key |-> key, timeout |-> handle]},
       !.snoozes = handle]

\* The page calls snoozePill of the mounted hook.
Snooze(timeBlock, pillNames) ==
    /\ pillHook.interval # {}
    /\ pillHook.snoozes < MaxSnoozes
    /\ pillHook' = snoozePill(pillHook, timeBlock, pillNames, now)
    /\ UNCHANGED <<now, device, notifications, remHook>>
    /\ UNCHANGED outsideClient

\* The callback of a timeout that is due: the snoozed notification, and
\* snoozedPills.delete(key).
TimerFire(timeout) ==
    /\ timeout \in pillHook.timeouts
    /\ timeout.due = now
    /\ notifications' = notifications (+) SetToBag(
          {[title |-> "Time for your " \o timeout.timeBlock \o " pills (snoozed)",
            body |-> timeout.body, about |-> timeout.timeBlock, at |-> now]})
    /\ pillHook' = [pillHook EXCEPT
          !.timeouts = @ \ {timeout},
          !.snoozedPills = {entry \in @ : entry.key # timeout.key}]
    /\ UNCHANGED <<now, device, remHook>>
    /\ UNCHANGED outsideClient

\* Time passes, up to an instant the clock is looked at or a timer is due
\* at, and not past a timer that is due.
Advance(at) ==
    /\ device.loaded
    /\ Later(now, at)
    /\ \A timer \in Timers : ~Later(timer.due, at)
    /\ now' = at
    /\ UNCHANGED <<device, notifications, remHook, pillHook>>
    /\ UNCHANGED outsideClient

----------------------------------------------------------------------------
(* The pill planner page *)

\* The page before its queries have answered: useQuery's data = [] defaults,
\* no mutation in flight.
NoPlanner == [medications |-> << >>, supplements |-> << >>, doses |-> {}, mutation |-> {}]

selectedDate == "2024-01-01"

\* What a query of the page answers with now.
QueryData(query) ==
    CASE query = "medications" -> medications
      [] query = "supplements" -> supplements
      [] query = "doses" -> {FetchedDose(d) : d \in getPillDosesByDate(selectedDate)}

\* A query of the page (re)fetches: on mount, after an invalidation, on focus.
PlannerFetch(query) ==
    /\ planner' = [planner EXCEPT ![query] = QueryData(query)]
    /\ UNCHANGED outsidePlanner

ActiveIds(table) == {i \in DOMAIN table : table[i].active = TRUE}

\* The pills DailyView shows a card for.
Cards ==
    {[type |-> "medication", id |-> i] : i \in ActiveIds(planner.medications)}
       \cup {[type |-> "supplement", id |-> i] : i \in ActiveIds(planner.supplements)}

\* doses.find(d => d.pillType === type && d.pillId === id): the first such
\* dose of the answer, whose order the query leaves open.
CardDoses(card) ==
    {d \in planner.doses : d.pillType = card.type /\ d.pillId = card.id}

\* PillCard: the Snooze and Taken buttons stand in the place of the badges.
ShowsButtons(doseStatus) == doseStatus # "taken" /\ doseStatus # "snoozed"

\* The body updateDoseMutation sends.
MutationBody(status) ==
    [status |-> status, takenAt |-> IF status = "taken" THEN Iso8h ELSE Null]

\* A click on the Taken or the Snooze button of a card: the buttons are
\* there, no mutation is pending, the card has a dose.
PlannerClick(card, status) ==
    /\ card \in Cards
    /\ planner.mutation = {}
    /\ \E d \in CardDoses(card) :
          /\ ShowsButtons(d.status)
          /\ planner' = [planner EXCEPT !.mutation = {[id |-> d.id, body |-> MutationBody(status)]}]
    /\ UNCHANGED outsidePlanner

\* The server serves the PATCH of the mutation and the mutation settles;
\* the invalidated doses query refetches in a later step.
PlannerServe ==
    \E m \in planner.mutation :
        /\ servePatchPillDose(m.id, m.body)
        /\ planner' = [planner EXCEPT !.mutation = {}]

----------------------------------------------------------------------------
(* Specifications *)

Init ==
    /\ medications = << >>
    /\ supplements = << >>
    /\ nextMedId = 1
    /\ nextSuppId = 1
    /\ pillDoses = {}
    /\ nextDoseId = 1
    /\ gen = [p \in Procs |-> IdleGen]
    /\ prevGenerate = NoGenerate
    /\ edits = 0
    /\ labResults = << >>
    /\ nextLabId = 1
    /\ healthMarkers = {}
    /\ recommendations = {}
    /\ task = << >>
    /\ interactions = {}
    /\ nextInteractionId = 1
    /\ chk = [p \in Procs |-> IdleChk]
    /\ users = {}
    /\ nextUserId = 1
    /\ req = [p \in Procs |-> IdleReq]
    /\ clock = 1
    /\ reply = NoReply
    /\ now = StartOfDay
    /\ device = NoPage
    /\ notifications = EmptyBag
    /\ remHook = UnmountedReminders
    /\ pillHook = UnmountedPills
    /\ planner = NoPlanner

PillInputs == BOOLEAN \X TimeBlockVals

PillPatches ==
    {[active |-> a] : a \in BOOLEAN} \cup {[timeBlock |-> b] : b \in TimeBlockVals}

DoseInputs ==
    {NewDose("medication", 1, "2024-01-01", "morning"),
     NewDose("supplement", 1, "2024-01-02", "evening")}

DosePatches ==
    {[status |-> "taken", takenAt |-> Iso8h], [scheduledTimeBlock |-> "evening"]}

PillRequest ==
    \/ \E in \in PillInputs : CreateMedication(in[1], in[2])
    \/ \E id \in DOMAIN medications, data \in PillPatches : UpdateMedication(id, data)
    \/ \E id \in DOMAIN medications : DeleteMedication(id)
    \/ \E in \in PillInputs : CreateSupplement(in[1], in[2])
    \/ \E id \in DOMAIN supplements, data \in PillPatches : UpdateSupplement(id, data)
    \/ \E id \in DOMAIN supplements : DeleteSupplement(id)

DoseRequest ==
    \/ \E data \in DoseInputs : PostPillDose(data)
    \/ \E d \in pillDoses, data \in DosePatches : PatchPillDose(d.id, data)

GenStep(p) ==
    \/ GenReadMedications(p)
    \/ GenReadSupplements(p)
    \/ GenInsertMedication(p)
    \/ GenInsertSupplement(p)
    \/ GenRespond(p)
    \/ GenReturn(p)

\* Requests arrive at any time: the steps of different requests interleave.
DoseNext ==
    \/ edits < MaxConcEdits /\ PillRequest
    \/ edits < MaxConcEdits /\ DoseRequest
    \/ \E p \in Procs, date \in GenDates : FirstFree(p) /\ GenStart(p, date)
    \/ \E p \in Procs : GenStep(p)

SpecDoses == Init /\ [][DoseNext]_vars

\* Medications and supplements come and go, active in their default block.
GeneratePillRequest ==
    \/ CreateMedication(TRUE, "morning")
    \/ \E id \in DOMAIN medications : DeleteMedication(id)
    \/ CreateSupplement(TRUE, "morning")
    \/ \E id \in DOMAIN supplements : DeleteSupplement(id)

\* The generate requests interleave with each other and with the medication
\* and supplement requests; no dose is written by hand.
GenerateNext ==
    \/ edits < MaxConcEdits /\ GeneratePillRequest
    \/ \E p \in Procs, date \in GenDates : FirstFree(p) /\ GenStart(p, date)
    \/ \E p \in Procs : GenStep(p)

SpecGenerate == Init /\ [][GenerateNext]_vars

\* One request at a time: a request starts when no other is in flight.
DoseSeqNext ==
    \/ NoRequestInFlight /\ PillRequest
    \/ NoRequestInFlight /\ DoseRequest
    \/ NoRequestInFlight /\ \E date \in GenDates : GenStart("r1", date)
    \/ GenStep("r1")

SpecDosesSeq == Init /\ [][DoseSeqNext]_vars

\* Uploads, deletes and the steps of the detached tasks interleave freely.
LabNext ==
    \/ UploadLabResult
    \/ \E id \in DOMAIN task, outcome \in ExtractOutcomes,
          markers \in MarkerLists, recs \in RecommendationLists :
            TaskExtract(id, outcome, markers, recs)
    \/ \E id \in DOMAIN task : TaskInsertMarker(id)
    \/ \E id \in DOMAIN task : TaskInsertRecommendation(id)
    \/ \E id \in DOMAIN task : TaskComplete(id)
    \/ \E id \in DOMAIN task : TaskCatch(id)
    \/ \E id \in DOMAIN labResults : DeleteLabResult(id)

SpecLab == Init /\ [][LabNext]_vars

\* The collaborator's answers: pairs of ids it was given, or made up.
InteractionResults ==
    LET r(m, s) == [medicationId |-> m, supplementId |-> s] IN
    {<< >>, <<r(1, 1)>>, <<r(1, 1), r(1, 1)>>, <<r(1, 1), r(2, 1)>>}

ActivePatches == {[active |-> FALSE], [active |-> TRUE]}

\* The medication and supplement requests that matter to the check.
InteractionPillRequest ==
    \/ \E a \in BOOLEAN : CreateMedication(a, "morning")
    \/ \E id \in DOMAIN medications, data \in ActivePatches : UpdateMedication(id, data)
    \/ \E id \in DOMAIN medications : DeleteMedication(id)
    \/ \E a \in BOOLEAN : CreateSupplement(a, "morning")
    \/ \E id \in DOMAIN supplements, data \in ActivePatches : UpdateSupplement(id, data)
    \/ \E id \in DOMAIN supplements : DeleteSupplement(id)

ChkStep(p) ==
    \/ ChkReadSupplements(p)
    \/ \E results \in InteractionResults : ChkCollaborator(p, results)
    \/ ChkDeleteAll(p)
    \/ ChkInsert(p)
    \/ ChkRespond(p)
    \/ ChkReturn(p)

FirstFreeChk(p) == p = "r1" \/ chk["r1"].pc # "idle"

NoCheckInFlight == \A p \in Procs : chk[p].pc = "idle"

\* The requests that add and remove the rows an interaction refers to; the
\* pills are active, so that a check in flight has read them.
InteractionRefRequest ==
    \/ CreateMedication(TRUE, "morning")
    \/ \E id \in DOMAIN medications : DeleteMedication(id)
    \/ CreateSupplement(TRUE, "morning")
    \/ \E id \in DOMAIN supplements : DeleteSupplement(id)

InteractionNext ==
    \/ InteractionRefRequest
    \/ \E p \in Procs : FirstFreeChk(p) /\ ChkStart(p)
    \/ \E p \in Procs : ChkStep(p)

SpecInteractions == Init /\ [][InteractionNext]_vars

\* One request at a time.
InteractionSeqNext ==
    \/ NoCheckInFlight /\ InteractionPillRequest
    \/ NoCheckInFlight /\ ChkStart("r1")
    \/ ChkStep("r1")

SpecInteractionsSeq == Init /\ [][InteractionSeqNext]_vars

\* Bodies of PATCH /api/me/health-profile, two of them refused.
ProfileBodies ==
    {EmptyProfile,
     [age |-> 0],
     [sex |-> "unknown"],
     [age |-> 30, heightCm |-> 170],
     [weightKg |-> 70],
     [age |-> 31, sex |-> "female", activityLevel |-> "high", allergies |-> <<"nuts">>,
      conditions |-> << >>, currentMedications |-> <<"aspirin">>]}

ReqStep(p) ==
    \/ ReqGetByUsername(p)
    \/ EnsureGetUser(p)
    \/ EnsureCreate(p)
    \/ EnsureUpdate(p)
    \/ ReqUpdate(p)
    \/ ReqReturn(p)

FirstFreeReq(p) == p = "r1" \/ req["r1"].pc # "idle"

UserNext ==
    \/ \E p \in Procs, kind \in {"me", "skip"} : FirstFreeReq(p) /\ ReqStart(p, kind)
    \/ \E p \in Procs, body \in ProfileBodies : FirstFreeReq(p) /\ PatchStart(p, body)
    \/ \E p \in Procs : ReqStep(p)

SpecUsers == Init /\ [][UserNext]_vars

\* Bodies of PATCH /api/pill-doses/:id as the planner page sends them, with
\* a timestamp of another writing and one that is no date.
DoseBodies ==
    {[status |-> "taken", takenAt |-> Iso8h],
     [status |-> "taken", takenAt |-> Short8h],
     [status |-> "snoozed", snoozedUntil |-> Iso9h],
     [status |-> "pending", takenAt |-> Null],
     [status |-> "taken", takenAt |-> "soon"]}

\* The requests served in one step, on ids that exist and on the next id of
\* each serial, which no row has.
CrudNext ==
    \/ \E a \in BOOLEAN : CreateMedication(a, "morning")
    \/ \E id \in 1..nextMedId, data \in ActivePatches : UpdateMedication(id, data)
    \/ \E id \in 1..nextMedId : DeleteMedication(id)
    \/ \E a \in BOOLEAN : CreateSupplement(a, "morning")
    \/ \E id \in 1..nextSuppId, data \in ActivePatches : UpdateSupplement(id, data)
    \/ \E id \in 1..nextSuppId : DeleteSupplement(id)
    \/ \E data \in DoseInputs : PostPillDose(data)
    \/ \E id \in 1..nextDoseId, data \in DoseBodies : PatchPillDose(id, data)
    \/ \E id \in 1..nextLabId : DeleteLabResult(id)

SpecCrud == Init /\ [][CrudNext]_vars

NoUserRequestInFlight == \A p \in Procs : req[p].pc = "idle"

\* One request at a time, at any instant.
UserSeqNext ==
    \/ NoUserRequestInFlight /\ Tick
    \/ \E kind \in {"me", "skip"} : NoUserRequestInFlight /\ ReqStart("r1", kind)
    \/ \E body \in ProfileBodies : NoUserRequestInFlight /\ PatchStart("r1", body)
    \/ ReqStep("r1")

SpecUsersSeq == Init /\ [][UserSeqNext]_vars

\* The reminders the page passes to the hook: rows of the reminders table.
Walk == [id |-> 1, title |-> "Walk", time |-> "06:00", days |-> {"monday"},
         type |-> "activity", enabled |-> TRUE]

ReminderLists ==
    {{},
     {Walk},
     {Walk,
      [id |-> 2, title |-> "Vitamin D", time |-> "06:00",
       type |-> "supplement", enabled |-> TRUE],
      [id |-> 3, title |-> "Statin", time |-> "15:00", days |-> {"monday", "tuesday"},
       type |-> "medication", enabled |-> FALSE]}}

Instants == [day : 1..MaxDay, t : TimesOfDay]

\* The rows the page passes to the pill hook.
MedicationLists ==
    {<< >>,
     <<[id |-> 1, name |-> "Statin", active |-> TRUE, timeBlock |-> "morning"],
       [id |-> 2, name |-> "Aspirin", active |-> FALSE, timeBlock |-> "evening"]>>,
     <<[id |-> 1, name |-> "Statin", active |-> TRUE, timeBlock |-> "afternoon"]>>}

SupplementLists ==
    {<< >>,
     <<[id |-> 1, name |-> "Vitamin D", active |-> TRUE, timeBlock |-> Null],
       [id |-> 2, name |-> "Zinc", active |-> TRUE, timeBlock |-> "evening"]>>}

PillNotifNext ==
    \/ \E permission \in {"default", "granted", "denied"}, utcOffset \in UtcOffsets :
          PageLoad(permission, utcOffset)
    \/ \E permission \in {"granted", "denied"} : PermissionAnswer(permission)
    \/ \E meds \in MedicationLists, supps \in SupplementLists : PillRender(meds, supps)
    \/ PillInterval
    \/ \E at \in Instants : Advance(at)

SpecPillNotifs == Init /\ [][PillNotifNext]_vars

\* The instants the clock is looked at while pills are snoozed, besides
\* those a timer is due at.
SnoozeInstants ==
    [day : {1}, t : {HalfMinute(6, 0, 0), HalfMinute(6, 0, 1), HalfMinute(6, 5, 0)}]

PillSnoozeNext ==
    \/ \E utcOffset \in UtcOffsets : PageLoad("granted", utcOffset)
    \/ \E meds \in MedicationLists \ {<< >>} : PillRender(meds, << >>)
    \/ PillInterval
    \/ \E timeBlock \in {"morning", "evening"} : Snooze(timeBlock, "Statin")
    \/ \E timeout \in Timers : TimerFire(timeout)
    \/ \E at \in SnoozeInstants \cup {timeout.due : timeout \in Timers} : Advance(at)

SpecPillSnooze == Init /\ [][PillSnoozeNext]_vars

\* The page with its pills, the doses generate makes for them, its queries
\* and its clicks.
PlannerNext ==
    \/ CreateMedication(TRUE, "morning")
    \/ CreateSupplement(TRUE, "morning")
    \/ NoRequestInFlight /\ GenStart("r1", selectedDate)
    \/ GenStep("r1")
    \/ \E query \in {"medications", "supplements", "doses"} : PlannerFetch(query)
    \/ \E card \in Cards, status \in {"taken", "snoozed"} : PlannerClick(card, status)
    \/ PlannerServe

SpecPlanner == Init /\ [][PlannerNext]_vars

ReminderNext ==
    \/ \E permission \in {"default", "granted", "denied"}, utcOffset \in UtcOffsets :
          PageLoad(permission, utcOffset)
    \/ \E permission \in {"granted", "denied"} : PermissionAnswer(permission)
    \/ \E reminders \in ReminderLists : ReminderRender(reminders)
    \/ ReminderInterval
    \/ \E at \in Instants : Advance(at)

SpecReminders == Init /\ [][ReminderNext]_vars

----------------------------------------------------------------------------
(* Claims about pill doses *)

\* C1: in every reachable state no two pill_doses rows share the natural key
\* (pillType, pillId, scheduledDate, scheduledTimeBlock).
C1_NoDuplicateNaturalKey ==
    \A d1, d2 \in pillDoses : NaturalKey(d1) = NaturalKey(d2) => d1.id = d2.id

\* C2: a generate call that completes right after a completed generate call
\* for the same date, with no medication, supplement or dose edit in
\* between, inserts no row and answers with the same set of doses.
C2_GenerateIdempotent ==
    \A p \in Procs :
        (gen[p].pc = "done" /\ prevGenerate.date = gen[p].date) =>
            /\ gen[p].inserted = 0
            /\ gen[p].response = prevGenerate.response

C2_Witness ==
    \E p \in Procs :
        /\ gen[p].pc = "done"
        /\ prevGenerate.date = gen[p].date
        /\ Cardinality(gen[p].response) >= 2

ExpectedBlock(row) ==
    IF row.timeBlock \in {Null, ""} THEN "morning" ELSE row.timeBlock

DosesOf(pillType, pillId, date) ==
    {d \in pillDoses : d.pillType = pillType /\ d.pillId = pillId
                       /\ d.scheduledDate = date}

\* C3: when generate(date) started with no dose for the date and has
\* completed, the date has exactly one dose per active medication and per
\* active supplement, in the pill's time block ("morning" when that is
\* unset or empty), and no dose of a pill that is not active.
C3_OneDosePerActivePill ==
    \A p \in Procs :
        (gen[p].pc = "done" /\ gen[p].startedEmpty) =>
            LET date == gen[p].date IN
            /\ \A i \in ActiveIds(medications) :
                  /\ Cardinality(DosesOf("medication", i, date)) = 1
                  /\ \A d \in DosesOf("medication", i, date) :
                        d.scheduledTimeBlock = ExpectedBlock(medications[i])
            /\ \A i \in ActiveIds(supplements) :
                  /\ Cardinality(DosesOf("supplement", i, date)) = 1
                  /\ \A d \in DosesOf("supplement", i, date) :
                        d.scheduledTimeBlock = ExpectedBlock(supplements[i])
            /\ \A d \in getPillDosesByDate(date) :
                  \/ d.pillType = "medication" /\ d.pillId \in ActiveIds(medications)
                  \/ d.pillType = "supplement" /\ d.pillId \in ActiveIds(supplements)
            /\ gen[p].response = getPillDosesByDate(date)

C3_Witness ==
    \E p \in Procs :
        /\ gen[p].pc = "done" /\ gen[p].startedEmpty
        /\ \E i \in ActiveIds(medications) :
              /\ medications[i].timeBlock = Null
              /\ \E d \in gen[p].response :
                    /\ d.pillType = "medication" /\ d.pillId = i
                    /\ d.scheduledTimeBlock = "morning"
        /\ ActiveIds(supplements) # {}
        /\ \E i \in DOMAIN medications : ~medications[i].active

\* C17: a generate request in flight keeps the existing keys it read at its
\* start whatever is inserted meanwhile, and each of its inserts adds a row to
\* pill_doses, whether or not a row of that natural key is there: two
\* interleaved requests for a date both insert the dose of a pill.
C17_GenerateRace ==
    [][\A p \in Procs :
          /\ (gen[p].pc # "idle" /\ gen'[p].pc # "idle") =>
                gen'[p].existingKeys = gen[p].existingKeys
          /\ (gen[p].pc = "loop" /\ gen'[p].pc = "loop" /\ gen'[p] # gen[p]) =>
                /\ gen'[p].inserted = gen[p].inserted + 1
                /\ Cardinality(pillDoses') = Cardinality(pillDoses) + 1]_vars

\* Two doses of one natural key, each inserted by one of two requests in
\* flight together.
C17_Witness ==
    /\ \A p \in Procs : gen[p].pc # "idle" /\ gen[p].inserted = 1
    /\ Cardinality(pillDoses) = 2
    /\ \E d1, d2 \in pillDoses :
          d1.id # d2.id /\ NaturalKey(d1) = NaturalKey(d2)

HasDoseInCurrentBlock(pillType, table, date) ==
    \A i \in ActiveIds(table) :
        \E d \in DosesOf(pillType, i, date) :
            d.scheduledTimeBlock = ExpectedBlock(table[i])

\* C18: when a generate(date) that ran alone has completed, every active
\* pill has a dose for the date in its current time block, and no step of a
\* generate request removes or changes a dose: after a change of time block
\* the dose of the old block stays and one of the new block is added.
C18_ChangedBlockAddsDose ==
    /\ [](\A p \in Procs :
            gen[p].pc = "done" =>
                /\ HasDoseInCurrentBlock("medication", medications, gen[p].date)
                /\ HasDoseInCurrentBlock("supplement", supplements, gen[p].date))
    /\ [][(\E p \in Procs : gen'[p] # gen[p]) => pillDoses \subseteq pillDoses']_vars

\* A medication created in the morning block and moved to the evening one,
\* with a generate after each of the two requests: it has a dose in each block.
C18_Witness ==
    \E p \in Procs :
        /\ gen[p].pc = "done"
        /\ gen[p].inserted = 1
        /\ edits = 2
        /\ reply = Ok
        /\ DOMAIN medications = {1}
        /\ medications[1].active
        /\ medications[1].timeBlock = "evening"
        /\ {d.scheduledTimeBlock : d \in DosesOf("medication", 1, gen[p].date)}
              = {"morning", "evening"}
        /\ Cardinality(pillDoses) = 2

----------------------------------------------------------------------------
(* Claims about lab results *)

TaskOver(id) == task[id].pc \in {"finished", "caught"}

\* C4: a lab result is created "processing" (and so is the upload's
\* response), and its status only ever changes from "processing" to
\* "completed" or to "error": the two are final, and an id never comes back.
C4_StatusTransitions ==
    [][/\ \A id \in DOMAIN labResults' \ DOMAIN labResults :
             /\ id \notin DOMAIN task
             /\ labResults'[id].status = "processing"
             /\ task'[id].response = "processing"
       /\ \A id \in DOMAIN labResults' \cap DOMAIN labResults :
             labResults'[id].status # labResults[id].status =>
                 /\ labResults[id].status = "processing"
                 /\ labResults'[id].status \in {"completed", "error"}]_vars

C4_Witness ==
    \E i, j \in DOMAIN labResults :
        /\ labResults[i].status = "completed" /\ TaskOver(i)
        /\ labResults[j].status = "error" /\ TaskOver(j)

\* C5: when the AI collaborator failed during the extraction for a lab
\* result (the call threw or its output did not parse), the lab result's
\* status is "error" once its task is over.
C5_CollaboratorFailureSetsError ==
    \A id \in DOMAIN task \cap DOMAIN labResults :
        (task[id].outcome = "failed" /\ TaskOver(id)) =>
            labResults[id].status = "error"

\* C6: every health marker and every recommendation references a lab result
\* that exists, whatever the interleaving of a delete with the task.
C6_NoOrphanMarkers ==
    \A row \in healthMarkers \cup recommendations :
        row.labResultId \in DOMAIN labResults

\* A lab result deleted after its task wrote rows for it and before the
\* task's next insert, which then threw.
C6_Witness ==
    \E id \in DOMAIN task \ DOMAIN labResults :
        /\ task[id].written > 0
        /\ task[id].pc = "caught"
        /\ task[id].markers # << >> \/ task[id].recommendations # << >>
        /\ Head(task[id].markers \o task[id].recommendations) = "ok"

RowsOf(id) == {row \in healthMarkers \cup recommendations : row.labResultId = id}

\* C19: when an insert of an extracted marker or recommendation has failed
\* and the task is over, the lab result, if it is still there, has status
\* "error" and a null rawText, and every row the task wrote before the
\* failure is stored.
C19_PartialWritesRemain ==
    \A id \in DOMAIN task \cap DOMAIN labResults :
        (task[id].pc = "caught" /\ task[id].outcome = "data") =>
            /\ labResults[id].status = "error"
            /\ labResults[id].rawText = Null
            /\ RowsOf(id) = {ExtractedRow(id, n) : n \in 1..task[id].written}

\* One marker was written, the insert of the next one failed.
C19_Witness ==
    \E id \in DOMAIN task \cap DOMAIN labResults :
        /\ task[id].pc = "caught"
        /\ task[id].outcome = "data"
        /\ task[id].written = 1
        /\ RowsOf(id) # {}

NothingExtracted ==
    [markers |-> << >>, recommendations |-> << >>]

\* The final state of a lab result for which nothing was extracted.
FoundNothing(id) ==
    /\ task[id].pc = "finished"
    /\ labResults[id].status = "completed"
    /\ labResults[id].rawText = "text"
    /\ RowsOf(id) = {}

\* C20: extractLabData turns every failure of the collaborator (a throw, a
\* text without JSON object, a JSON that does not parse) into the empty
\* result without throwing, and the lab result then ends as it does for an
\* extraction of zero markers and zero recommendations.
C20_FailureLooksEmpty ==
    /\ \A o \in CollaboratorFailures, m \in MarkerLists, r \in RecommendationLists :
          ExtractedData(o, m, r) = NothingExtracted /\ ~Throws(o)
    /\ \A id \in DOMAIN task \cap DOMAIN labResults :
          /\ (TaskOver(id) /\ task[id].outcome = "failed") => FoundNothing(id)
          /\ (TaskOver(id) /\ task[id].outcome = "data" /\ task[id].written = 0
               /\ task[id].pc = "finished") => FoundNothing(id)

\* Two lab results, the collaborator failed for one and found nothing for
\* the other: both ended the same.
C20_Witness ==
    \E i, j \in DOMAIN task \cap DOMAIN labResults :
        /\ task[i].outcome = "failed" /\ task[j].outcome = "data"
        /\ FoundNothing(i) /\ FoundNothing(j)
        /\ [labResults[i] EXCEPT !.id = 0] = [labResults[j] EXCEPT !.id = 0]

----------------------------------------------------------------------------
(* Claims about the interaction check *)

ReturnedPairs(p) == {chk[p].returned[i] : i \in 1..Len(chk[p].returned)}

RowsFor(pair) ==
    {r \in interactions : /\ r.medicationId = pair.medicationId
                          /\ r.supplementId = pair.supplementId}

TimesReturned(p, pair) ==
    Cardinality({i \in 1..Len(chk[p].returned) : chk[p].returned[i] = pair})

\* C8: when a check that ran alone has answered 200, the interactions table
\* holds one row for each interaction the collaborator returned, no other row,
\* and no row that was there when the check began.
C8_FullReplace ==
    \A p \in Procs :
        (chk[p].pc = "done" /\ chk[p].status = 200) =>
            /\ Cardinality(interactions) = Len(chk[p].returned)
            /\ \A pair \in ReturnedPairs(p) :
                  Cardinality(RowsFor(pair)) = TimesReturned(p, pair)
            /\ interactions \cap chk[p].before = {}
            /\ chk[p].response = interactions

\* A check that found rows of an earlier check and replaced them by new ones.
C8_Witness ==
    \E p \in Procs :
        /\ chk[p].pc = "done"
        /\ chk[p].status = 200
        /\ chk[p].before # {}
        /\ Len(chk[p].returned) = 2

NoActivePair ==
    \/ ActiveIds(medications) = {}
    \/ ActiveIds(supplements) = {}

\* C9: a check that ran alone with no active medication or no active
\* supplement answers the empty list, leaves the interactions table empty and
\* has not called the collaborator.
C9_NothingToCheck ==
    \A p \in Procs :
        (chk[p].pc = "done" /\ NoActivePair) =>
            /\ chk[p].status = 200
            /\ chk[p].response = {}
            /\ interactions = {}
            /\ ~chk[p].aiCalled

\* Such a check that cleared the rows of an earlier one, with a medication
\* on file but paused.
C9_Witness ==
    \E p \in Procs :
        /\ chk[p].pc = "done"
        /\ NoActivePair
        /\ chk[p].before # {}
        /\ interactions = {}
        /\ DOMAIN medications # {}
        /\ DOMAIN supplements # {}

----------------------------------------------------------------------------
(* Claims about the health profile *)

RequiredNumbers == {"age", "heightCm", "weightKg"}

\* C10: when PATCH /api/me/health-profile has written, the stored profile is
\* the profile it read overwritten by the keys of the patch, and the stored
\* isComplete is true exactly when age, heightCm and weightKg are numbers in
\* it, whatever the other keys hold.
C10_IsCompleteIffRequiredNumbers ==
    \A p \in Procs :
        (req[p].pc = "done" /\ req[p].kind = "patch" /\ req[p].status = 200) =>
            \A old \in req[p].user, new \in req[p].updated :
                LET merged == [k \in DOMAIN old.healthProfile \cup DOMAIN req[p].updates |->
                                  IF k \in DOMAIN req[p].updates
                                  THEN req[p].updates[k] ELSE old.healthProfile[k]]
                IN /\ new.healthProfile = merged
                   /\ new.healthProfileStatus.isComplete =
                         (\A k \in RequiredNumbers : k \in DOMAIN merged /\ merged[k] \in Int)

\* A patch completed a profile that held a part of the required numbers and
\* no sex.
C10_Witness ==
    \E p \in Procs :
        /\ req[p].pc = "done" /\ req[p].kind = "patch" /\ req[p].status = 200
        /\ \E old \in req[p].user, new \in req[p].updated :
              /\ new.healthProfileStatus.isComplete
              /\ "sex" \notin DOMAIN new.healthProfile
              /\ DOMAIN old.healthProfile \cap RequiredNumbers # {}
              /\ DOMAIN req[p].updates \cap RequiredNumbers # {}
              /\ ~(RequiredNumbers \subseteq DOMAIN req[p].updates)

\* What isComplete has to be for a stored profile.
HasRequiredNumbers(hp) ==
    \A k \in RequiredNumbers : k \in DOMAIN hp /\ hp[k] \in Int

\* C11: in every reachable state, requests interleaved, the stored isComplete
\* of a user equals (age, heightCm and weightKg are numbers in its stored
\* healthProfile).
C11_StoredIsCompleteMatchesProfile ==
    \A u \in users :
        u.healthProfileStatus.isComplete = HasRequiredNumbers(u.healthProfile)

Succeeded(p, kind) ==
    /\ req[p].pc = "done"
    /\ req[p].kind = kind
    /\ req[p].status = 200

\* C12: when a skip that ran alone has answered, the stored skippedAt is the
\* current time, and isComplete, lastUpdated and the healthProfile are what
\* they were before it.
C12_SkipOnlySetsSkippedAt ==
    \A p \in Procs :
        Succeeded(p, "skip") =>
            /\ users = req[p].updated
            /\ \A old \in req[p].user, new \in req[p].updated :
                  /\ new.healthProfileStatus.skippedAt = Now
                  /\ new.healthProfileStatus.isComplete = old.healthProfileStatus.isComplete
                  /\ ("lastUpdated" \in DOMAIN new.healthProfileStatus)
                        = ("lastUpdated" \in DOMAIN old.healthProfileStatus)
                  /\ "lastUpdated" \in DOMAIN old.healthProfileStatus =>
                        new.healthProfileStatus.lastUpdated = old.healthProfileStatus.lastUpdated
                  /\ new.healthProfile = old.healthProfile

\* A skip of a complete profile that was last updated at an earlier instant.
C12_Witness ==
    \E p \in Procs :
        /\ Succeeded(p, "skip")
        /\ \E new \in req[p].updated :
              /\ new.healthProfileStatus.isComplete
              /\ "lastUpdated" \in DOMAIN new.healthProfileStatus
              /\ new.healthProfileStatus.lastUpdated # Now
              /\ new.healthProfileStatus.skippedAt = Now

\* C13: the row a successful PATCH /api/me/health-profile has written has no
\* skippedAt in its healthProfileStatus, whatever the status it read held and
\* whatever the patch.
C13_PatchClearsSkippedAt ==
    \A p \in Procs :
        (req[p].pc = "done" /\ req[p].kind = "patch" /\ req[p].status = 200) =>
            \A new \in req[p].updated :
                "skippedAt" \notin DOMAIN new.healthProfileStatus

\* The empty patch, sent for a profile that had been skipped.
C13_Witness ==
    \E p \in Procs :
        /\ req[p].pc = "done" /\ req[p].kind = "patch" /\ req[p].status = 200
        /\ req[p].updates = EmptyProfile
        /\ \E old \in req[p].user : "skippedAt" \in DOMAIN old.healthProfileStatus
        /\ \E new \in req[p].updated : "skippedAt" \notin DOMAIN new.healthProfileStatus

\* C16: in every reachable state, requests interleaved, at most one user is
\* named "demo", and a /api/me request that has answered 200 has left exactly
\* one.
C16_DemoUserSingleton ==
    /\ Cardinality(getUserByUsername("demo")) <= 1
    /\ \A p \in Procs :
          (req[p].pc = "done" /\ req[p].status = 200) =>
              Cardinality(getUserByUsername("demo")) = 1

\* The first two requests both found no demo user: one created it and
\* answered 200, the createUser of the other threw.
C16_Witness ==
    \E p, q \in Procs :
        /\ req[p].pc = "done" /\ req[p].status = 200
        /\ req[q].pc = "done" /\ req[q].status = 500
        /\ Cardinality(getUserByUsername("demo")) = 1

----------------------------------------------------------------------------
(* Claims about requests by id *)

DoseIds == {d.id : d \in pillDoses}

DatesParse(data) == ~HasInvalidDate(ConvertDates(data))

\* What a fetch shows for key k of a dose agrees with what body data supplied.
ShowsSupplied(d, data, k) ==
    IF k \in DateKeys /\ data[k] # Null
    THEN ParseDate(FetchedDose(d)[k]) = ParseDate(data[k])
    ELSE FetchedDose(d)[k] = data[k]

\* C14: a PATCH /api/pill-doses/:id whose timestamps are dates, on a dose
\* that exists, is answered 200 and leaves the dose showing the supplied
\* status and the supplied instants, its other columns as they were; on an
\* id no dose has it is answered 404 and no dose changes; and a dose shows
\* the same until a PATCH of that dose.
C14_PatchStoresSupplied ==
    [][/\ \A id \in 1..nextDoseId, data \in DoseBodies :
             (DatesParse(data) /\ PatchPillDose(id, data)) =>
                 IF id \in DoseIds
                 THEN /\ reply' = Ok
                      /\ \E old \in pillDoses, new \in pillDoses' :
                            /\ old.id = id /\ new.id = id
                            /\ pillDoses' \ {new} = pillDoses \ {old}
                            /\ \A k \in DOMAIN data : ShowsSupplied(new, data, k)
                            /\ \A k \in DOMAIN old \ DOMAIN data : new[k] = old[k]
                 ELSE reply' = NotFound /\ pillDoses' = pillDoses
       /\ \A d \in pillDoses :
             \/ d \in pillDoses'
             \/ \E data \in DoseBodies : PatchPillDose(d.id, data)]_vars

\* A dose marked taken at 8h shows so after a PATCH of an id no dose has
\* was answered 404.
C14_Witness ==
    /\ reply = NotFound
    /\ \E d \in pillDoses :
          /\ FetchedDose(d).status = "taken"
          /\ FetchedDose(d).takenAt = Iso8h
    /\ medications = << >>
    /\ supplements = << >>

StoreUnchanged ==
    UNCHANGED <<medications, supplements, pillDoses, labResults,
                healthMarkers, recommendations, interactions>>

\* A PATCH or DELETE of a medication, supplement, pill dose or lab result by
\* an id that no row of the table has.
MissingIdRequest ==
    \/ \E id \in (1..nextMedId) \ DOMAIN medications :
          \/ \E data \in ActivePatches : UpdateMedication(id, data)
          \/ DeleteMedication(id)
    \/ \E id \in (1..nextSuppId) \ DOMAIN supplements :
          \/ \E data \in ActivePatches : UpdateSupplement(id, data)
          \/ DeleteSupplement(id)
    \/ \E id \in (1..nextDoseId) \ DoseIds :
          \E data \in DoseBodies : DatesParse(data) /\ PatchPillDose(id, data)
    \/ \E id \in (1..nextLabId) \ DOMAIN labResults : DeleteLabResult(id)

ExistingIdDelete ==
    \/ \E id \in DOMAIN medications : DeleteMedication(id)
    \/ \E id \in DOMAIN supplements : DeleteSupplement(id)
    \/ \E id \in DOMAIN labResults : DeleteLabResult(id)

\* C15: every request by an id that does not exist is answered 404 and
\* leaves the store unchanged, and a delete of a row that exists is answered
\* with an empty 204.
C15_MissingIdIs404 ==
    [][/\ MissingIdRequest => (reply'.status = 404 /\ StoreUnchanged)
       /\ ExistingIdDelete => reply' = NoContent]_vars

----------------------------------------------------------------------------
(* Claims about the client's onboarding *)

\* GET /api/me has answered 200 to p: the client holds the user.
Loaded(p) == req[p].pc = "done" /\ req[p].kind = "me" /\ req[p].status = 200

\* The step is the write of a profile update.
ProfileUpdateStep == \E p \in Procs : req[p].kind = "patch" /\ ReqUpdate(p)

----------------------------------------------------------------------------
(* Claims about the notification hooks *)

\* The notifications shown so far for an entity on a local day.
ShownFor(about, day) ==
    {n \in BagToSet(notifications) : n.about = about /\ n.at.day = day}

\* How many they are.
RECURSIVE Copies(_)
Copies(shown) ==
    IF shown = {} THEN 0
    ELSE LET n == CHOOSE n \in shown : TRUE IN
         CopiesIn(n, notifications) + Copies(shown \ {n})

\* C22: while the hook stays mounted, at most one notification has been
\* shown for every reminder and local day, and every notification shown for
\* a reminder was shown at an instant whose HH:MM is the reminder's time and
\* whose weekday is in its days, while the reminder was enabled.
C22_OneNotificationPerReminderAndDay ==
    /\ \A r \in UNION ReminderLists, day \in 1..MaxDay :
          Copies(ShownFor(r.id, day)) <= 1
    /\ \A n \in BagToSet(notifications) :
          \E r \in UNION ReminderLists :
             /\ r.id = n.about
             /\ r.enabled = TRUE
             /\ r.time = CurrentTime(n.at)
             /\ CurrentDay(n.at) \in ReminderDays(r)

\* The pills of a time block among the rows the hook holds that are active.
ActiveInBlock(hook, timeBlock) ==
    {row \in {hook.medications[i] : i \in DOMAIN hook.medications}
              \cup {hook.supplements[i] : i \in DOMAIN hook.supplements} :
        row.active = TRUE /\ BlockOf(row) = timeBlock}

\* C23: while the hook stays mounted and nothing is snoozed, at most one
\* notification has been shown for every time block and local day; every
\* notification was shown for one of the four time blocks at its trigger
\* time; and a step shows a notification only for a block that has an active
\* pill among the rows the hook holds.
C23_OneNotificationPerBlockAndDay ==
    /\ [](/\ \A n \in BagToSet(notifications) :
                /\ Copies(ShownFor(n.about, n.at.day)) <= 1
                /\ n.about \in {"morning", "midday", "evening", "bedtime"}
                /\ CurrentTime(n.at) = timeBlockTriggers[n.about])
    /\ [][\A n \in BagToSet(notifications') \ BagToSet(notifications) :
             ActiveInBlock(pillHook', n.about) # {}]_vars

\* Both the morning and the evening pills have been notified of on both
\* days, each once, the second day after the lists had changed.
C23_Witness ==
    /\ \A day \in 1..2 : \A timeBlock \in {"morning", "evening"} :
          Copies(ShownFor(timeBlock, day)) = 1
    /\ pillHook.renders = 2

\* The snoozed notifications a step creates for a time block.
NewSnoozed(timeBlock) ==
    {n \in BagToSet(notifications') :
        /\ n.title = "Time for your " \o timeBlock \o " pills (snoozed)"
        /\ n.at = now
        /\ CopiesIn(n, notifications') = CopiesIn(n, notifications) + 1}

\* C24: at most one timeout is pending for a key (time block and day); a
\* step that arms a timeout arms one, due 10 minutes later, and leaves its
\* key out of firedToday; and a timeout stops being pending only in a step
\* that arms another for its key, or at its due instant in a step that
\* creates one snoozed notification of its time block and leaves its key out
\* of the map.
C24_SnoozeArmsOneTimer ==
    /\ [](\A a, b \in Timers : a.key = b.key => a = b)
    /\ [][/\ \A armed \in pillHook'.timeouts \ pillHook.timeouts :
                /\ pillHook'.timeouts \ pillHook.timeouts = {armed}
                /\ armed.due = After(now, SNOOZE_DURATION)
                /\ armed.key \notin pillHook'.firedToday
          /\ \A ended \in pillHook.timeouts \ pillHook'.timeouts :
                \/ \E armed \in pillHook'.timeouts \ pillHook.timeouts :
                      armed.key = ended.key
                \/ /\ now = ended.due
                   /\ Cardinality(NewSnoozed(ended.timeBlock)) = 1
                   /\ ended.key \notin {entry.key : entry \in pillHook'.snoozedPills}]_vars

----------------------------------------------------------------------------
(* Claims about what generate and the pill routes leave alone *)

\* The step is one of a generate request.
GenerateStep(p) == gen'[p] # gen[p] /\ gen[p].pc # "done"

\* The date of the request p serves before or after the step.
DateOf(p) == IF gen[p].pc = "idle" THEN gen'[p].date ELSE gen[p].date

\* C25: with requests run one at a time, every step of a generate request
\* keeps every pill_doses row as it is; the rows it adds are of the
\* request's date, pending, with null takenAt and snoozedUntil; and the
\* response it builds is the set of rows stored for that date.
C25_GenerateOnlyAdds ==
    [][\A p \in Procs :
          GenerateStep(p) =>
             /\ pillDoses \subseteq pillDoses'
             /\ \A d \in pillDoses' \ pillDoses :
                   /\ d.scheduledDate = DateOf(p)
                   /\ d.status = "pending"
                   /\ d.takenAt = Null
                   /\ d.snoozedUntil = Null
             /\ gen'[p].pc = "done" =>
                   gen'[p].response = {d \in pillDoses' : d.scheduledDate = DateOf(p)}]_vars

\* A generate has answered with a dose that was taken before it began and a
\* dose it has inserted.
C25_Witness ==
    \E p \in Procs :
        /\ gen[p].pc = "done"
        /\ gen[p].inserted >= 1
        /\ ~gen[p].startedEmpty
        /\ \E d \in gen[p].response : d.status = "taken" /\ d.takenAt # Null
        /\ \E d \in gen[p].response : d.status = "pending"
        /\ gen[p].response = {d \in pillDoses : d.scheduledDate = gen[p].date}

\* The table a pill type names, before and after the step.
PillTable(pillType) == IF pillType = "medication" THEN medications ELSE supplements

PillTableAfter(pillType) == IF pillType = "medication" THEN medications' ELSE supplements'

\* The step deletes the pill or sets its active flag to false.
RetiresPill(pillType, id) ==
    /\ id \in ActiveIds(PillTable(pillType)) \/ id \notin DOMAIN PillTableAfter(pillType)
    /\ id \in DOMAIN PillTable(pillType)
    /\ id \notin ActiveIds(PillTableAfter(pillType))

\* C26: with requests run one at a time, a step that deletes a medication
\* or supplement or sets its active flag to false leaves every pill_doses
\* row as it is, and a generate request inserts doses only of pills that
\* are rows of their table with the active flag set.
C26_RetiredPillKeepsDoses ==
    [][/\ \A pillType \in {"medication", "supplement"} :
             \A id \in DOMAIN PillTable(pillType) :
                RetiresPill(pillType, id) => pillDoses' = pillDoses
       /\ \A p \in Procs :
             GenerateStep(p) =>
                \A d \in pillDoses' \ pillDoses :
                   d.pillId \in ActiveIds(PillTable(d.pillType))]_vars

\* A generate has answered after the one medication there was had been
\* deleted: its dose is still stored, and the request has inserted none.
C26_Witness ==
    \E p \in Procs :
        /\ gen[p].pc = "done"
        /\ gen[p].inserted = 0
        /\ nextMedId = 2
        /\ medications = << >>
        /\ reply = NoContent
        /\ \E d \in gen[p].response : d.pillType = "medication" /\ d.pillId = 1

----------------------------------------------------------------------------
(* Claims about the rows of a lab result *)

\* The rows of one table that reference a lab result.
RowsIn(table, id) == {row \in table : row.labResultId = id}

\* C27: in every reachable state, every lab result that is "completed" has
\* its rawText set and as many health_markers and recommendations rows as
\* the extraction returned markers and recommendations, and every lab result
\* that is "processing" or "error" has a null rawText.
C27_CompletedMeansPersisted ==
    \A id \in DOMAIN labResults :
        /\ labResults[id].status = "completed" =>
              /\ labResults[id].rawText # Null
              /\ Cardinality(RowsIn(healthMarkers, id))
                    = Len(task[id].extractedData.markers)
              /\ Cardinality(RowsIn(recommendations, id))
                    = Len(task[id].extractedData.recommendations)
        /\ labResults[id].status \in {"processing", "error"} =>
              labResults[id].rawText = Null

\* One lab result is completed with the two markers and the recommendation
\* extracted for it, while another, still processing, has a marker already.
C27_Witness ==
    \E id, other \in DOMAIN labResults :
        /\ labResults[id].status = "completed"
        /\ labResults[id].rawText # Null
        /\ Cardinality(RowsIn(healthMarkers, id)) = 2
        /\ Cardinality(RowsIn(recommendations, id)) = 1
        /\ labResults[other].status = "processing"
        /\ RowsIn(healthMarkers, other) # {}

----------------------------------------------------------------------------
(* Claims about the profile over a sequence of requests *)

\* C28: with requests run one at a time, every step leaves every user
\* stored, every one of age, heightCm and weightKg that held a number
\* holding a number, and isComplete true where it was true.
C28_ProfileMonotone ==
    [][\A u \in users :
          \E after \in users' :
             /\ after.id = u.id
             /\ \A k \in RequiredNumbers \cap DOMAIN u.healthProfile :
                   k \in DOMAIN after.healthProfile /\ after.healthProfile[k] \in Int
             /\ u.healthProfileStatus.isComplete => after.healthProfileStatus.isComplete]_vars

\* A profile that was complete and then skipped has been updated with a
\* patch that holds none of the three numbers, and is complete.
C28_Witness ==
    \E p \in Procs :
        /\ Succeeded(p, "patch")
        /\ DOMAIN req[p].updates \cap RequiredNumbers = {}
        /\ \E old \in req[p].user :
              /\ old.healthProfileStatus.isComplete
              /\ "skippedAt" \in DOMAIN old.healthProfileStatus
        /\ \E new \in req[p].updated :
              /\ new.healthProfileStatus.isComplete
              /\ HasRequiredNumbers(new.healthProfile)
        /\ users = req[p].updated

----------------------------------------------------------------------------
(* Claims about the pill planner page *)

\* C29: every PATCH the planner page has served changes a dose from
\* "pending" to "taken" or to "snoozed"; and every mutation it starts is for
\* a dose its card shows as neither "taken" nor "snoozed", with a takenAt
\* timestamp when the new status is "taken" and null otherwise, and with no
\* snoozedUntil.
C29_PlannerTransitions ==
    [][/\ \A m \in planner.mutation \ planner'.mutation :
             \A d \in pillDoses :
                d.id = m.id =>
                   /\ d.status = "pending"
                   /\ \E after \in pillDoses' :
                         after.id = d.id /\ after.status \in {"taken", "snoozed"}
       /\ \A m \in planner'.mutation \ planner.mutation :
             /\ \E d \in planner.doses : d.id = m.id /\ d.status \notin {"taken", "snoozed"}
             /\ (m.body.status = "taken") <=> (m.body.takenAt # Null)
             /\ m.body.status \in {"taken", "snoozed"}
             /\ "snoozedUntil" \notin DOMAIN m.body]_vars

----------------------------------------------------------------------------
(* Claims about a check that fails *)

\* The results the loop of a check has inserted so far.
InsertedSoFar(p) == SubSeq(chk[p].returned, 1, Len(chk[p].returned) - Len(chk[p].results))

\* C30: with requests run one at a time, a check that is at its inserts, or
\* has answered 500, has left no row that was there when it began; and when
\* it has answered 500, an insert was refused, and the table holds one row
\* for each result returned before the refused one, and no other row.
C30_FailedCheckLeavesPartialRows ==
    \A p \in Procs :
        /\ (chk[p].pc = "insert" \/ (chk[p].pc = "done" /\ chk[p].status = 500)) =>
              interactions \cap chk[p].before = {}
        /\ (chk[p].pc = "done" /\ chk[p].status = 500) =>
              /\ chk[p].results # << >>
              /\ ~InteractionAccepted(Head(chk[p].results))
              /\ Cardinality(interactions) = Len(InsertedSoFar(p))
              /\ \A r \in interactions :
                    \E i \in DOMAIN InsertedSoFar(p) :
                       /\ InsertedSoFar(p)[i].medicationId = r.medicationId
                       /\ InsertedSoFar(p)[i].supplementId = r.supplementId

\* A check has answered 500 after one insert: the rows of the check before
\* it are gone, and the one new row is there.
C30_Witness ==
    \E p \in Procs :
        /\ chk[p].pc = "done"
        /\ chk[p].status = 500
        /\ chk[p].before # {}
        /\ Cardinality(interactions) = 1
        /\ interactions \cap chk[p].before = {}
        /\ Len(chk[p].returned) = 2

====
